---- MODULE Spec2Model ----
(***************************************************************************)
(* Model of the go-llm provider orchestration layer: Builder.SendWithMeta  *)
(* (retry / fallback loop), the OpenAI provider's Send and response        *)
(* parsing, and the capability warnings.                                   *)
(***************************************************************************)
EXTENDS Integers, Sequences, FiniteSets, TLC

(* ------------------------------ bounds --------------------------------- *)
MaxFallbacks == 2       \* longest fallback list given to Builder.Fallback
MaxRetries == 1         \* largest argument given to Builder.Retry
MaxAttempts == 2        \* largest RetryConfig attempt budget
MaxBuiltin == 1         \* longest built-in tool list of a builder
MaxCallers == 2         \* goroutines calling SendWithMeta at the same time
MaxSetFields == 2       \* fields of a BuiltinTool set besides its Type
MaxItems == 2           \* items of an output array, choices of a body
MaxParts == 2           \* content parts of a message item
MaxLines == 3           \* lines of a streamed response body
MaxLegacyRetries == 3   \* largest Retry(n) of the calls followed sleep by sleep
MaxCalls == 2           \* builder calls made on a builder and its clone
MaxMessages == 2        \* User / Assistant messages added to a builder

(* --------------------------- program constants ------------------------- *)
LegacyBackoffMs == 100

Models == {"m1", "m2"}

(* ProviderCapabilities: one name per flag that SendWithMeta looks at.     *)
CapNames ==
  {"tools", "thinking/reasoning", "web_search", "file_search",
   "code_interpreter", "mcp", "image_generation", "computer_use",
   "shell", "apply_patch"}

(* OpenAIProvider.Capabilities: every flag is true.                        *)
OpenAICapabilities == CapNames

(* BuiltinTool.Type values the capability switch knows, plus one it does   *)
(* not know (no case, no check).                                           *)
BuiltinTypes ==
  {"web_search", "file_search", "code_interpreter", "mcp",
   "image_generation", "computer_use_preview", "shell", "apply_patch"}

UnknownType == "custom"

(* The feature name / capability flag the switch pairs with a tool type.   *)
CapabilityOfType(t) == IF t = "computer_use_preview" THEN "computer_use" ELSE t

(* ------------------------------ values --------------------------------- *)
NoErr == [kind |-> "nil", by |-> 0]
NoResp == [Content |-> 0]
NoReq == [Model |-> "", Tools |-> FALSE, Thinking |-> FALSE,
          BuiltinTools |-> <<>>, JSONMode |-> FALSE]
NoMeta == [Content |-> 0, Error |-> NoErr, Model |-> "", Retries |-> 0]

(* ProviderError / validation error / context error, tagged with the       *)
(* number of the Send call that produced it (0: produced by no Send).      *)
ProviderError(kind, n) == [kind |-> kind, by |-> n]

SeqsUpTo(S, n) == UNION {[1..k -> S] : k \in 0..n}

(* A response body as the decoders see it.                                 *)
Bodies == [wellFormed : BOOLEAN, hasError : BOOLEAN, choices : 0..1]

(* ------------------------------- state --------------------------------- *)
VARIABLES
  b,        \* the Builder the call is made on
  caps,     \* client.provider.Capabilities(): the set of true flags
  apiKey,   \* p.config.APIKey # ""
  ctxDone,  \* the call's context is cancelled / past its deadline
  Debug,    \* the package-level Debug flag
  gate,     \* passes through the process-wide rate-limit gate
  call,     \* the locals of the running SendWithMeta call
  twin,     \* the same call against a provider supporting every capability
  callers,  \* the locals of each of several concurrent SendWithMeta calls
  startDebug, \* Debug before the first of the concurrent calls started
  resolved, \* a resolveModel call: its arguments and its result
  wire,     \* a buildBuiltinTool / sendResponses call and the tools it built
  decoded,  \* a response body and what the decoder returned for it
  stream,   \* a SendStream call: the response body left to read, its locals
  pair      \* a builder, its Clone and the builder calls made on the two

vars == <<b, caps, apiKey, ctxDone, Debug, gate, call, twin,
          callers, startDebug, resolved, wire, decoded, stream, pair>>

(* The variables of the single orchestrated call, and the others.          *)
orchVars == <<b, caps, apiKey, ctxDone, gate, call, twin>>
concVars == <<callers, startDebug>>

(* The values of the variables a specification does not use.               *)
NoCallers == callers = <<>> /\ startDebug = FALSE
NoResolve == [pc |-> "none"]
NoWire == [pc |-> "none"]
NoDecode == [pc |-> "none"]
NoStream == [pc |-> "none"]
NoPair == [pc |-> "none"]

(* --------------------------- Builder methods --------------------------- *)
(* New(model) followed by the fluent setters.                              *)
New(model) ==
  [model |-> model, fallbacks |-> <<>>, maxRetries |-> 0, retryConfig |-> 0,
   validators |-> FALSE, debug |-> FALSE, tools |-> FALSE,
   thinking |-> FALSE, builtinTools |-> <<>>, jsonMode |-> FALSE]

Retry(bb, times) == [bb EXCEPT !.maxRetries = times]

Fallback(bb, models) == [bb EXCEPT !.fallbacks = models]

(* Which retry discipline lines 411-439 select.                            *)
Discipline(bb) ==
  IF bb.retryConfig # 0 THEN "smart"
  ELSE IF bb.maxRetries > 0 THEN "legacy"
  ELSE "none"

(* Variant: the primary model is appended after the fallbacks.             *)
AttemptChainFallbacksFirst(bb) == bb.fallbacks \o <<bb.model>>

(* models := append([]Model{b.model}, b.fallbacks...)                      *)
AttemptChain(bb) == <<bb.model>> \o bb.fallbacks

(* req := &ProviderRequest{...}                                            *)
NewProviderRequest(bb, model) ==
  [Model |-> model, Tools |-> bb.tools, Thinking |-> bb.thinking,
   BuiltinTools |-> bb.builtinTools, JSONMode |-> bb.jsonMode]

(* ------------------------- capability warnings ------------------------- *)
(* Variant: an unsupported feature is also taken out of the request.       *)
checkCapabilityStrict(c, feature, supported) ==
  IF ~supported
  THEN [c EXCEPT !.warnings = Append(@, feature),
                 !.req = [@ EXCEPT !.Tools = FALSE, !.Thinking = FALSE,
                                   !.BuiltinTools = <<>>]]
  ELSE c

(* checkCapability: prints a warning when the feature is unsupported and   *)
(* Debug is on; nothing else.                                              *)
checkCapability(c, feature, supported) ==
  IF ~supported /\ Debug
  THEN [c EXCEPT !.warnings = Append(@, feature)]
  ELSE c

(* for _, bt := range b.builtinTools { switch bt.Type { ... } }            *)
RECURSIVE CheckBuiltinTools(_, _, _)
CheckBuiltinTools(c, tools, capset) ==
  IF tools = <<>> THEN c
  ELSE LET t == Head(tools)
           c1 == IF t \in BuiltinTypes
                 THEN checkCapability(c, CapabilityOfType(t),
                                      CapabilityOfType(t) \in capset)
                 ELSE c
       IN  CheckBuiltinTools(c1, Tail(tools), capset)

(* Lines 374-401.                                                          *)
CheckCapabilities(c, bb, capset) ==
  LET c1 == IF bb.tools
            THEN checkCapability(c, "tools", "tools" \in capset) ELSE c
      c2 == IF bb.thinking
            THEN checkCapability(c1, "thinking/reasoning",
                                 "thinking/reasoning" \in capset)
            ELSE c1
  IN  CheckBuiltinTools(c2, bb.builtinTools, capset)

(* ------------------------------ provider ------------------------------- *)
(* parseResponse (chat completions body).                                  *)
parseResponse(body, n) ==
  IF ~body.wellFormed
  THEN [resp |-> NoResp, err |-> ProviderError("decode", n)]
  ELSE IF body.hasError
  THEN [resp |-> NoResp, err |-> ProviderError("backend", n)]
  ELSE IF body.choices = 0
  THEN [resp |-> NoResp, err |-> ProviderError("nochoices", n)]
  ELSE [resp |-> [Content |-> n], err |-> NoErr]

(* parseResponsesResponse (Responses API body): envelope and error object. *)
parseResponsesResponse(body, n) ==
  IF ~body.wellFormed
  THEN [resp |-> NoResp, err |-> ProviderError("decode", n)]
  ELSE IF body.hasError
  THEN [resp |-> NoResp, err |-> ProviderError("backend", n)]
  ELSE [resp |-> [Content |-> n], err |-> NoErr]

(* OpenAIProvider.Send / sendResponses: net.failed when httpClient.Do or   *)
(* the body read fails, else net.body is the body received.                *)
Send(key, req, net, n) ==
  IF ~key THEN [resp |-> NoResp, err |-> ProviderError("config", n)]
  ELSE IF net.failed
  THEN [resp |-> NoResp, err |-> ProviderError("transport", n)]
  ELSE IF Len(req.BuiltinTools) > 0 THEN parseResponsesResponse(net.body, n)
  ELSE parseResponse(net.body, n)

(* What the network can hand to a Send: a request started on a context     *)
(* that is already done fails in Do.                                       *)
NoBody == [wellFormed |-> FALSE, hasError |-> FALSE, choices |-> 0]

NetOutcomes(startedDone) ==
  {[failed |-> TRUE, body |-> NoBody]} \cup
  (IF startedDone THEN {} ELSE {[failed |-> FALSE, body |-> bd] : bd \in Bodies})

(* ----------------------- external collaborators ----------------------- *)
(* b.runValidators(content): the validators accept the content or reject   *)
(* it with a validation error.                                             *)
runValidators(content, verdict) ==
  IF verdict = "reject"
  THEN [validated |-> 0, err |-> ProviderError("validation", content)]
  ELSE [validated |-> content, err |-> NoErr]

(* waitForRateLimit(): one pass through the shared gate.                   *)
waitForRateLimit(c) == [c EXCEPT !.gates = @ + 1]

(* WithRetry(ctx, cfg, fn), entry: no attempt starts on a done context.    *)
WithRetryEnter(c, done) ==
  IF done
  THEN [c EXCEPT !.err = ProviderError("ctx", 0), !.resp = NoResp,
                 !.pc = "after"]
  ELSE [c EXCEPT !.pc = "gate"]

(* WithRetry, after fn returned: stop on success, on a backend-reported    *)
(* error (never retried locally) and when cfg's attempts are used up;      *)
(* otherwise back off.                                                     *)
WithRetryNext(c, bb) ==
  IF c.err = NoErr \/ c.err.kind = "backend" \/ c.tries >= bb.retryConfig
  THEN [c EXCEPT !.pc = "after"]
  ELSE [c EXCEPT !.pc = "backoff"]

(* WithRetry, the backoff sleep (exponential, jittered): it ends early on  *)
(* a done context, and then no further attempt is made.                    *)
WithRetryBackoff(c, done) ==
  IF done
  THEN [c EXCEPT !.err = ProviderError("ctx", 0), !.resp = NoResp,
                 !.pc = "after"]
  ELSE [c EXCEPT !.pc = "gate"]

(* ---------------------------- SendWithMeta ----------------------------- *)
NewCall ==
  [pc |-> "start", models |-> <<>>, i |-> 0, req |-> NoReq,
   attempt |-> 0, retries |-> 0, tries |-> 0, totalRetries |-> 0,
   resp |-> NoResp, err |-> NoErr, lastErr |-> NoErr, meta |-> NoMeta,
   oldDebug |-> FALSE,
   \* history of the call; gateDone: the context was done when the current
   \* attempt entered the gate; backendAt: the chain position of the last
   \* backend-reported error (0: none); oks: the Sends that succeeded
   sends |-> <<>>, gates |-> 0, gateDone |-> FALSE, inflight |-> 0,
   warnings |-> <<>>,
   backendAt |-> 0, oks |-> {}, sleeps |-> <<>>]

(* Lines 338-360: remember Debug, build the chain, clear the counters.     *)
Enter(c, bb, dbg) ==
  [c EXCEPT !.oldDebug = dbg, !.models = AttemptChain(bb), !.i = 1,
            !.lastErr = NoErr, !.totalRetries = 0, !.pc = "loop"]

(* Variant: the legacy attempt counter is shared by the models.            *)
BeginModelSharedBudget(c, bb, capset, done) ==
  LET c1 == [c EXCEPT !.req = NewProviderRequest(bb, c.models[c.i]),
                      !.resp = NoResp, !.err = NoErr]
      c2 == CheckCapabilities(c1, bb, capset)
  IN  IF Discipline(bb) = "smart"
      THEN WithRetryEnter([c2 EXCEPT !.retries = 0, !.tries = 0], done)
      ELSE [c2 EXCEPT !.pc = "gate"]

(* Lines 362-421: one iteration of `for _, model := range models` up to    *)
(* the choice of the retry discipline.                                     *)
BeginModel(c, bb, capset, done) ==
  LET c1 == [c EXCEPT !.req = NewProviderRequest(bb, c.models[c.i]),
                      !.resp = NoResp, !.err = NoErr]
      c2 == CheckCapabilities(c1, bb, capset)
  IN  IF Discipline(bb) = "smart"
      THEN WithRetryEnter([c2 EXCEPT !.retries = 0, !.tries = 0], done)
      ELSE [c2 EXCEPT !.attempt = 0, !.pc = "gate"]

(* Variant: the closure counts every one of its calls.                     *)
CountRetryEveryCall(c) ==
  [c EXCEPT !.retries = @ + 1, !.tries = @ + 1, !.totalRetries = @ + 1]

(* The closure handed to WithRetry, lines 415-418.                         *)
CountRetry(c) ==
  LET r == c.retries + 1
  IN  [c EXCEPT !.retries = r, !.tries = @ + 1,
                !.totalRetries = IF r > 1 THEN @ + 1 ELSE @]

(* Variant: every attempt, a model's first included, counts as a retry.    *)
PassGateCountsAll(c, bb, done) ==
  LET c1 == IF Discipline(bb) = "smart" THEN CountRetry(c) ELSE c
  IN  [waitForRateLimit(c1) EXCEPT !.pc = "send", !.gateDone = done,
                                   !.totalRetries = c.totalRetries + 1]

(* Variant: only the first attempt of the call passes the gate.            *)
PassGateFirstOnly(c, bb, done) ==
  LET c1 == IF Discipline(bb) = "smart" THEN CountRetry(c) ELSE c
  IN  IF c.sends = <<>>
      THEN [waitForRateLimit(c1) EXCEPT !.pc = "send", !.gateDone = done]
      ELSE [c1 EXCEPT !.pc = "send", !.gateDone = done]

(* Lines 419 / 429 / 437: the gate pass in front of the Send.              *)
PassGate(c, bb, done) ==
  LET c1 == IF Discipline(bb) = "smart" THEN CountRetry(c) ELSE c
  IN  [waitForRateLimit(c1) EXCEPT !.pc = "send", !.gateDone = done]

(* client.provider.Send(ctx, req) is called.                               *)
StartSend(c, done) ==
  [c EXCEPT !.sends = Append(@, [model |-> c.req.Model, i |-> c.i,
                                 req |-> c.req, attempt |-> c.attempt,
                                 retries |-> c.retries, gates |-> c.gates,
                                 ctxAtGate |-> c.gateDone, ctxDone |-> done,
                                 inflight |-> c.inflight]),
            !.gates = 0, !.inflight = @ + 1, !.pc = "inflight"]

(* Variant: the legacy loop without its break on success.                  *)
LegacyNextNoBreak(c, bb) ==
  IF c.attempt + 1 <= bb.maxRetries
  THEN [c EXCEPT !.attempt = @ + 1, !.pc = "sleep"]
  ELSE [c EXCEPT !.attempt = @ + 1, !.pc = "after"]

(* Lines 424-434, the legacy loop after a Send: break on success, else     *)
(* attempt++ and the loop test attempt <= b.maxRetries.                    *)
LegacyNext(c, bb) ==
  IF c.err = NoErr THEN [c EXCEPT !.pc = "after"]
  ELSE IF c.attempt + 1 <= bb.maxRetries
  THEN [c EXCEPT !.attempt = @ + 1, !.pc = "sleep"]
  ELSE [c EXCEPT !.attempt = @ + 1, !.pc = "after"]

(* Variant: the sleep grows linearly with the attempt.                     *)
LegacySleepLinear(c) ==
  [c EXCEPT !.totalRetries = @ + 1,
            !.sleeps = Append(@, c.attempt * LegacyBackoffMs),
            !.pc = "gate"]

(* Lines 425-428: totalRetries++ and the quadratic sleep.                  *)
LegacySleep(c) ==
  [c EXCEPT !.totalRetries = @ + 1,
            !.sleeps = Append(@, c.attempt * c.attempt * LegacyBackoffMs),
            !.pc = "gate"]

(* The Send returns r = (resp, err); control goes on by discipline.        *)
FinishSend(c, bb, r) ==
  LET c1 == [c EXCEPT !.resp = r.resp, !.err = r.err, !.inflight = @ - 1,
                      !.backendAt = IF r.err.kind = "backend"
                                    THEN c.i ELSE @,
                      !.oks = IF r.err = NoErr
                              THEN @ \cup {Len(c.sends)} ELSE @]
  IN  CASE Discipline(bb) = "smart" -> WithRetryNext(c1, bb)
        [] Discipline(bb) = "legacy" -> LegacyNext(c1, bb)
        [] OTHER -> [c1 EXCEPT !.pc = "after"]

(* Lines 457-475.                                                          *)
SuccessMeta(c, content) ==
  [Content |-> content, Error |-> NoErr, Model |-> c.models[c.i],
   Retries |-> c.totalRetries]

(* Lines 447-452.                                                          *)
ValidationMeta(c, verr) ==
  [Content |-> 0, Error |-> verr, Model |-> c.models[c.i],
   Retries |-> c.totalRetries]

(* Variant: the final error is tagged with the last model tried.           *)
ExhaustedMetaLastTried(c, bb) ==
  [Content |-> 0, Error |-> c.lastErr, Model |-> c.models[Len(c.models)],
   Retries |-> c.totalRetries]

(* Line 480.                                                               *)
ExhaustedMeta(c, bb) ==
  [Content |-> 0, Error |-> c.lastErr, Model |-> bb.model,
   Retries |-> c.totalRetries]

(* Variant: a validation error is handled like a failed attempt.           *)
SucceedFallsBack(c, bb, verdict) ==
  LET content == c.resp.Content
      v == runValidators(content, verdict)
  IN  IF bb.validators /\ v.err # NoErr
      THEN [c EXCEPT !.err = v.err, !.resp = NoResp]
      ELSE [c EXCEPT !.meta = SuccessMeta(c, v.validated), !.pc = "done"]

(* Lines 441-476: err == nil; validate when validators are configured.     *)
Succeed(c, bb, verdict) ==
  LET content == c.resp.Content
      v == runValidators(content, verdict)
  IN  IF bb.validators
      THEN IF v.err # NoErr
           THEN [c EXCEPT !.meta = ValidationMeta(c, v.err), !.pc = "done"]
           ELSE [c EXCEPT !.meta = SuccessMeta(c, v.validated),
                          !.pc = "done"]
      ELSE [c EXCEPT !.meta = SuccessMeta(c, content), !.pc = "done"]

(* Line 477 and the loop's step to the next model.                         *)
Advance(c) ==
  [c EXCEPT !.lastErr = c.err, !.i = @ + 1, !.pc = "loop"]

(* Line 480: the chain is exhausted.                                       *)
Exhaust(c, bb) == [c EXCEPT !.meta = ExhaustedMeta(c, bb), !.pc = "done"]

(* ------------------------------ actions -------------------------------- *)
Config == <<b, caps, apiKey>>
Elsewhere == <<callers, startDebug, resolved, wire, decoded, stream, pair>>

Start ==
  /\ call.pc = "start"
  /\ call' = Enter(call, b, Debug)
  /\ twin' = Enter(twin, b, Debug)
  /\ Debug' = IF b.debug THEN TRUE ELSE Debug
  /\ UNCHANGED <<Config, Elsewhere, ctxDone, gate>>

TryModel ==
  /\ call.pc = "loop"
  /\ call.i <= Len(call.models)
  /\ call' = BeginModel(call, b, caps, ctxDone)
  /\ twin' = BeginModel(twin, b, CapNames, ctxDone)
  /\ UNCHANGED <<Config, Elsewhere, ctxDone, Debug, gate>>

RateLimit ==
  /\ call.pc = "gate"
  /\ call' = PassGate(call, b, ctxDone)
  /\ twin' = PassGate(twin, b, ctxDone)
  /\ gate' = gate + 1
  /\ UNCHANGED <<Config, Elsewhere, ctxDone, Debug>>

SendCall ==
  /\ call.pc = "send"
  /\ call' = StartSend(call, ctxDone)
  /\ twin' = StartSend(twin, ctxDone)
  /\ UNCHANGED <<Config, Elsewhere, ctxDone, Debug, gate>>

SendReturn ==
  /\ call.pc = "inflight"
  /\ \E net \in NetOutcomes(call.sends[Len(call.sends)].ctxDone) :
       /\ call' = FinishSend(call, b,
                    Send(apiKey, call.req, net, Len(call.sends)))
       /\ twin' = FinishSend(twin, b,
                    Send(apiKey, twin.req, net, Len(twin.sends)))
  /\ UNCHANGED <<Config, Elsewhere, ctxDone, Debug, gate>>

Sleep ==
  /\ call.pc = "sleep"
  /\ call' = LegacySleep(call)
  /\ twin' = LegacySleep(twin)
  /\ UNCHANGED <<Config, Elsewhere, ctxDone, Debug, gate>>

Backoff ==
  /\ call.pc = "backoff"
  /\ call' = WithRetryBackoff(call, ctxDone)
  /\ twin' = WithRetryBackoff(twin, ctxDone)
  /\ UNCHANGED <<Config, Elsewhere, ctxDone, Debug, gate>>

ReturnResult ==
  /\ call.pc = "after"
  /\ call.err = NoErr
  /\ \E verdict \in (IF b.validators THEN {"accept", "reject"}
                                      ELSE {"accept"}) :
       /\ call' = Succeed(call, b, verdict)
       /\ twin' = Succeed(twin, b, verdict)
  /\ Debug' = call.oldDebug
  /\ UNCHANGED <<Config, Elsewhere, ctxDone, gate>>

NextModel ==
  /\ call.pc = "after"
  /\ call.err # NoErr
  /\ call' = Advance(call)
  /\ twin' = Advance(twin)
  /\ UNCHANGED <<Config, Elsewhere, ctxDone, Debug, gate>>

ReturnExhausted ==
  /\ call.pc = "loop"
  /\ call.i > Len(call.models)
  /\ call' = Exhaust(call, b)
  /\ twin' = Exhaust(twin, b)
  /\ Debug' = call.oldDebug
  /\ UNCHANGED <<Config, Elsewhere, ctxDone, gate>>

(* The caller cancels the context, or its deadline passes.                 *)
Cancel ==
  /\ ~ctxDone
  /\ call.pc # "done"
  /\ ctxDone' = TRUE
  /\ UNCHANGED <<Config, Elsewhere, Debug, gate, call, twin>>

(* --------------------------- specification ----------------------------- *)
(* Builders that exercise the retry / fallback loop against OpenAI.        *)
FallbackLists ==
  {f \in SeqsUpTo(Models, MaxFallbacks) :
     \A j \in 1..(Len(f) - 1) : f[j] # f[j + 1]}

(* No policy or Retry(r); a RetryConfig alone; and both set at once.       *)
RetryChoices ==
  {<<r, 0>> : r \in 0..MaxRetries} \cup {<<0, rc>> : rc \in 1..MaxAttempts}
  \cup {<<MaxRetries, 1>>}

OrchBuilders ==
  {[Fallback(Retry(New(m), p[1]), f) EXCEPT !.retryConfig = p[2],
                                            !.validators = v] :
     m \in Models, f \in FallbackLists, p \in RetryChoices, v \in BOOLEAN}

(* Builders that exercise the capability warnings.                         *)
FeatureBuilders ==
  {[New("m1") EXCEPT !.debug = d, !.tools = t, !.thinking = th,
                     !.builtinTools = bt] :
     d \in BOOLEAN, t \in BOOLEAN, th \in BOOLEAN,
     bt \in SeqsUpTo(BuiltinTypes \cup {UnknownType}, MaxBuiltin)}

CapabilitySets == {CapNames, {}} \cup {CapNames \ {f} : f \in CapNames}

InitOrch ==
  /\ b \in OrchBuilders
  /\ caps = OpenAICapabilities
  /\ apiKey \in BOOLEAN
  /\ Debug = FALSE

InitFeatures ==
  /\ b \in FeatureBuilders
  /\ caps \in CapabilitySets
  /\ apiKey = TRUE
  /\ Debug \in BOOLEAN
  /\ ~(Debug /\ b.debug)

Init ==
  /\ (InitOrch \/ InitFeatures)
  /\ ctxDone = FALSE
  /\ gate = 0
  /\ call = NewCall
  /\ twin = NewCall
  /\ NoCallers
  /\ stream = NoStream
  /\ pair = NoPair
  /\ resolved = NoResolve
  /\ wire = NoWire
  /\ decoded = NoDecode

Next ==
  \/ Start
  \/ TryModel
  \/ RateLimit
  \/ SendCall
  \/ SendReturn
  \/ Sleep
  \/ Backoff
  \/ ReturnResult
  \/ NextModel
  \/ ReturnExhausted
  \/ Cancel

Spec == Init /\ [][Next]_vars

(* The calls whose retry loop is entirely in SendWithMeta: no retry policy *)
(* or the legacy Retry(n).                                                 *)
InitInline == Init /\ Discipline(b) # "smart"

NextInline ==
  \/ Start
  \/ TryModel
  \/ RateLimit
  \/ SendCall
  \/ SendReturn
  \/ Sleep
  \/ ReturnResult
  \/ NextModel
  \/ ReturnExhausted
  \/ Cancel

SpecInline == InitInline /\ [][NextInline]_vars

(* The calls under the legacy Retry(n) policy alone, with more retries and *)
(* at most one fallback.                                                   *)
LegacyBuilders(n) ==
  {Fallback(Retry(New("m1"), r), f) : r \in 1..n, f \in {<<>>, <<"m2">>}}

InitLegacy ==
  /\ b \in LegacyBuilders(MaxLegacyRetries)
  /\ caps = OpenAICapabilities
  /\ apiKey = TRUE
  /\ Debug = FALSE
  /\ ctxDone = FALSE
  /\ gate = 0
  /\ call = NewCall
  /\ twin = NewCall
  /\ NoCallers
  /\ stream = NoStream
  /\ pair = NoPair
  /\ resolved = NoResolve
  /\ wire = NoWire
  /\ decoded = NoDecode

NextLegacy ==
  \/ Start
  \/ TryModel
  \/ RateLimit
  \/ SendCall
  \/ SendReturn
  \/ Sleep
  \/ ReturnResult
  \/ NextModel
  \/ ReturnExhausted
  \/ Cancel

SpecLegacy == InitLegacy /\ [][NextLegacy]_vars

(* The single orchestrated call is not running.                            *)
NoOrch ==
  /\ b = New("m1")
  /\ caps = OpenAICapabilities
  /\ apiKey = TRUE
  /\ ctxDone = FALSE
  /\ gate = 0
  /\ call = NewCall
  /\ twin = NewCall

(* ------------------ concurrent SendWithMeta calls ---------------------- *)
(* Several goroutines call SendWithMeta at once, each on a builder of its  *)
(* own; Debug is the one package-level variable they all read and write,   *)
(* without a lock.  A call is followed through its accesses to Debug.      *)
CallerIds == 1..MaxCallers

NewCaller(d) ==
  [pc |-> "start", debug |-> d, oldDebug |-> FALSE, ranDebug |-> FALSE]

(* Line 342: oldDebug := Debug                                             *)
SaveDebug(p) ==
  /\ callers[p].pc = "start"
  /\ callers' = [callers EXCEPT ![p].oldDebug = Debug, ![p].pc = "saved"]
  /\ UNCHANGED <<Debug, startDebug>>

(* Lines 343-345: if b.debug { Debug = true }                              *)
SetDebug(p) ==
  /\ callers[p].pc = "saved"
  /\ Debug' = IF callers[p].debug THEN TRUE ELSE Debug
  /\ callers' = [callers EXCEPT ![p].pc = "body"]
  /\ UNCHANGED startDebug

(* Lines 403-405: if Debug { printDebugRequest(model, msgs) }              *)
RunBody(p) ==
  /\ callers[p].pc = "body"
  /\ callers' = [callers EXCEPT ![p].ranDebug = Debug, ![p].pc = "defer"]
  /\ UNCHANGED <<Debug, startDebug>>

(* Line 346, run on return: defer func() { Debug = oldDebug }()            *)
RestoreDebug(p) ==
  /\ callers[p].pc = "defer"
  /\ Debug' = callers[p].oldDebug
  /\ callers' = [callers EXCEPT ![p].pc = "done"]
  /\ UNCHANGED startDebug

InitConcurrent ==
  /\ NoOrch
  /\ stream = NoStream
  /\ pair = NoPair
  /\ Debug \in BOOLEAN
  /\ startDebug = Debug
  /\ callers \in {[p \in CallerIds |-> NewCaller(d[p])] :
                     d \in [CallerIds -> BOOLEAN]}
  /\ resolved = NoResolve
  /\ wire = NoWire
  /\ decoded = NoDecode

NextConcurrent ==
  \/ \E p \in CallerIds :
       SaveDebug(p) /\ UNCHANGED <<orchVars, resolved, wire, decoded, stream, pair>>
  \/ \E p \in CallerIds :
       SetDebug(p) /\ UNCHANGED <<orchVars, resolved, wire, decoded, stream, pair>>
  \/ \E p \in CallerIds :
       RunBody(p) /\ UNCHANGED <<orchVars, resolved, wire, decoded, stream, pair>>
  \/ \E p \in CallerIds :
       RestoreDebug(p) /\ UNCHANGED <<orchVars, resolved, wire, decoded, stream, pair>>

SpecConcurrent == InitConcurrent /\ [][NextConcurrent]_vars

(* ---------------------------- string helpers --------------------------- *)
(* Go strings are TLA+ strings; positions are counted from 1 here, and a   *)
(* position of 0 stands for Go's "not found" (-1).                         *)
Digits == {"0", "1", "2", "3", "4", "5", "6", "7", "8", "9"}

ByteAt(s, i) == SubSeq(s, i, i)

(* strings.HasPrefix                                                       *)
HasPrefix(s, prefix) ==
  Len(s) >= Len(prefix) /\ SubSeq(s, 1, Len(prefix)) = prefix

(* Variant: the prefix is not removed.                                     *)
TrimPrefixKeeps(s, prefix) == s

(* strings.TrimPrefix / the string strings.CutPrefix returns               *)
TrimPrefix(s, prefix) ==
  IF HasPrefix(s, prefix) THEN SubSeq(s, Len(prefix) + 1, Len(s)) ELSE s

(* strings.IndexByte                                                       *)
IndexByte(s, c) ==
  IF \E i \in 1..Len(s) : ByteAt(s, i) = c
  THEN CHOOSE i \in 1..Len(s) :
         ByteAt(s, i) = c /\ \A j \in 1..(i - 1) : ByteAt(s, j) # c
  ELSE 0

(* strings.Contains                                                        *)
Contains(s, substr) ==
  \E i \in 1..(Len(s) - Len(substr) + 1) :
    SubSeq(s, i, i + Len(substr) - 1) = substr

(* strings.ReplaceAll for a non-empty old: the non-overlapping occurrences *)
(* of old, found left to right, are replaced by new.                       *)
RECURSIVE ReplaceAll(_, _, _)
ReplaceAll(s, old, new) ==
  IF Len(s) < Len(old) THEN s
  ELSE IF HasPrefix(s, old)
       THEN new \o ReplaceAll(SubSeq(s, Len(old) + 1, Len(s)), old, new)
       ELSE ByteAt(s, 1) \o ReplaceAll(Tail(s), old, new)

(* ---------------------------- model resolver --------------------------- *)
ProviderOpenRouter == "openrouter"
ProviderOpenAI == "openai"
ProviderAnthropic == "anthropic"
ProviderGoogle == "google"
ProviderOllama == "ollama"
ProviderAzure == "azure"

ProviderTypes ==
  {ProviderOpenRouter, ProviderOpenAI, ProviderAnthropic, ProviderGoogle,
   ProviderOllama, ProviderAzure}

(* The Model constants that key the tables.  Each one is taken to be the   *)
(* OpenRouter-style "vendor/model" id of the model.                        *)
ModelConst ==
  [ ModelGPT52 |-> "openai/gpt-5.2",
   ModelGPT52Pro |-> "openai/gpt-5.2-pro",
   ModelGPT51 |-> "openai/gpt-5.1",
   ModelGPT5Base |-> "openai/gpt-5",
   ModelGPT5Pro |-> "openai/gpt-5-pro",
   ModelGPT5Mini |-> "openai/gpt-5-mini",
   ModelGPT5Nano |-> "openai/gpt-5-nano",
   ModelGPT51Codex |-> "openai/gpt-5.1-codex",
   ModelGPT51CodexMax |-> "openai/gpt-5.1-codex-max",
   ModelGPT5CodexBase |-> "openai/gpt-5-codex",
   ModelGPT51CodexMini |-> "openai/gpt-5.1-codex-mini",
   ModelCodexMiniLatest |-> "openai/codex-mini-latest",
   ModelGPT5SearchAPI |-> "openai/gpt-5-search-api",
   ModelComputerUsePreview |-> "openai/computer-use-preview",
   ModelGPT52ChatLatest |-> "openai/gpt-5.2-chat-latest",
   ModelGPT51ChatLatest |-> "openai/gpt-5.1-chat-latest",
   ModelGPT5ChatLatest |-> "openai/gpt-5-chat-latest",
   ModelChatGPT4oLatest |-> "openai/chatgpt-4o-latest",
   ModelGPT41 |-> "openai/gpt-4.1",
   ModelGPT41Mini |-> "openai/gpt-4.1-mini",
   ModelGPT41Nano |-> "openai/gpt-4.1-nano",
   ModelGPT4o |-> "openai/gpt-4o",
   ModelGPT4o20240513 |-> "openai/gpt-4o-2024-05-13",
   ModelGPT4oMini |-> "openai/gpt-4o-mini",
   ModelO1 |-> "openai/o1",
   ModelO1Mini |-> "openai/o1-mini",
   ModelO1Pro |-> "openai/o1-pro",
   ModelO1Preview |-> "openai/o1-preview",
   ModelO3 |-> "openai/o3",
   ModelO3Mini |-> "openai/o3-mini",
   ModelO3Pro |-> "openai/o3-pro",
   ModelO3DeepResearch |-> "openai/o3-deep-research",
   ModelO4Mini |-> "openai/o4-mini",
   ModelO4MiniDeepResearch |-> "openai/o4-mini-deep-research",
   ModelGPTRealtime |-> "openai/gpt-realtime",
   ModelGPTRealtimeMini |-> "openai/gpt-realtime-mini",
   ModelGPT4oRealtimePreview |-> "openai/gpt-4o-realtime-preview",
   ModelGPT4oMiniRealtimePreview |-> "openai/gpt-4o-mini-realtime-preview",
   ModelGPTAudio |-> "openai/gpt-audio",
   ModelGPTAudioMini |-> "openai/gpt-audio-mini",
   ModelGPT4oAudioPreview |-> "openai/gpt-4o-audio-preview",
   ModelGPT4oMiniAudioPreview |-> "openai/gpt-4o-mini-audio-preview",
   ModelGPT4oMiniSearchPreview |-> "openai/gpt-4o-mini-search-preview",
   ModelGPT4oSearchPreview |-> "openai/gpt-4o-search-preview",
   ModelGPT4oMiniTTS |-> "openai/gpt-4o-mini-tts",
   ModelGPT4oTranscribe |-> "openai/gpt-4o-transcribe",
   ModelGPT4oTranscribeDiarize |-> "openai/gpt-4o-transcribe-diarize",
   ModelGPT4oMiniTranscribe |-> "openai/gpt-4o-mini-transcribe",
   ModelGPTImage15 |-> "openai/gpt-image-1.5",
   ModelChatGPTImageLatest |-> "openai/chatgpt-image-latest",
   ModelGPTImage1 |-> "openai/gpt-image-1",
   ModelGPTImage1Mini |-> "openai/gpt-image-1-mini",
   ModelSora2 |-> "openai/sora-2",
   ModelSora2Pro |-> "openai/sora-2-pro",
   ModelClaudeOpus |-> "anthropic/claude-opus-4.5",
   ModelClaudeSonnet |-> "anthropic/claude-sonnet-4.5",
   ModelClaudeHaiku |-> "anthropic/claude-haiku-4.5",
   ModelClaudeOpus41 |-> "anthropic/claude-opus-4.1",
   ModelClaudeOpus4 |-> "anthropic/claude-opus-4",
   ModelClaudeSonnet4 |-> "anthropic/claude-sonnet-4",
   ModelClaudeSonnet37 |-> "anthropic/claude-3.7-sonnet",
   ModelClaudeHaiku35 |-> "anthropic/claude-3.5-haiku",
   ModelClaudeHaiku3 |-> "anthropic/claude-3-haiku",
   ModelClaudeOpus3 |-> "anthropic/claude-3-opus",
   ModelClaudeSonnet3 |-> "anthropic/claude-3-sonnet",
   ModelGemini3Pro |-> "google/gemini-3-pro-preview",
   ModelGemini3Flash |-> "google/gemini-3-flash-preview",
   ModelGemini25Pro |-> "google/gemini-2.5-pro",
   ModelGemini25Flash |-> "google/gemini-2.5-flash",
   ModelGemini25FlashLite |-> "google/gemini-2.5-flash-lite",
   ModelGemini2Flash |-> "google/gemini-2.0-flash-001",
   ModelGemini2FlashLite |-> "google/gemini-2.0-flash-lite-001",
   ModelGrok41Fast |-> "x-ai/grok-4.1-fast",
   ModelGrok3 |-> "x-ai/grok-3",
   ModelGrok3Mini |-> "x-ai/grok-3-mini",
   ModelQwen3Next |-> "qwen/qwen3-next",
   ModelQwen3 |-> "qwen/qwen-3-235b",
   ModelLlama4 |-> "meta-llama/llama-4-maverick",
   ModelMistralLarge |-> "mistralai/mistral-large" ]
(* modelMappings[ProviderOpenRouter]                                   *)
OpenRouterModels ==
  ModelConst.ModelGPT52 :> "openai/gpt-5.2" @@
  ModelConst.ModelGPT52Pro :> "openai/gpt-5.2-pro" @@
  ModelConst.ModelGPT51 :> "openai/gpt-5.1" @@
  ModelConst.ModelGPT5Base :> "openai/gpt-5" @@
  ModelConst.ModelGPT5Pro :> "openai/gpt-5-pro" @@
  ModelConst.ModelGPT5Mini :> "openai/gpt-5-mini" @@
  ModelConst.ModelGPT5Nano :> "openai/gpt-5-nano" @@
  ModelConst.ModelGPT51Codex :> "openai/gpt-5.1-codex" @@
  ModelConst.ModelGPT51CodexMax :> "openai/gpt-5.1-codex-max" @@
  ModelConst.ModelGPT5CodexBase :> "openai/gpt-5-codex" @@
  ModelConst.ModelGPT51CodexMini :> "openai/gpt-5.1-codex-mini" @@
  ModelConst.ModelCodexMiniLatest :> "openai/codex-mini-latest" @@
  ModelConst.ModelGPT5SearchAPI :> "openai/gpt-5-search-api" @@
  ModelConst.ModelComputerUsePreview :> "openai/computer-use-preview" @@
  ModelConst.ModelGPT52ChatLatest :> "openai/gpt-5.2-chat-latest" @@
  ModelConst.ModelGPT51ChatLatest :> "openai/gpt-5.1-chat-latest" @@
  ModelConst.ModelGPT5ChatLatest :> "openai/gpt-5-chat-latest" @@
  ModelConst.ModelChatGPT4oLatest :> "openai/chatgpt-4o-latest" @@
  ModelConst.ModelGPT41 :> "openai/gpt-4.1" @@
  ModelConst.ModelGPT41Mini :> "openai/gpt-4.1-mini" @@
  ModelConst.ModelGPT41Nano :> "openai/gpt-4.1-nano" @@
  ModelConst.ModelGPT4o :> "openai/gpt-4o" @@
  ModelConst.ModelGPT4o20240513 :> "openai/gpt-4o-2024-05-13" @@
  ModelConst.ModelGPT4oMini :> "openai/gpt-4o-mini" @@
  ModelConst.ModelO1 :> "openai/o1" @@
  ModelConst.ModelO1Mini :> "openai/o1-mini" @@
  ModelConst.ModelO1Pro :> "openai/o1-pro" @@
  ModelConst.ModelO1Preview :> "openai/o1-preview" @@
  ModelConst.ModelO3 :> "openai/o3" @@
  ModelConst.ModelO3Mini :> "openai/o3-mini" @@
  ModelConst.ModelO3Pro :> "openai/o3-pro" @@
  ModelConst.ModelO3DeepResearch :> "openai/o3-deep-research" @@
  ModelConst.ModelO4Mini :> "openai/o4-mini" @@
  ModelConst.ModelO4MiniDeepResearch :> "openai/o4-mini-deep-research" @@
  ModelConst.ModelGPTRealtime :> "openai/gpt-realtime" @@
  ModelConst.ModelGPTRealtimeMini :> "openai/gpt-realtime-mini" @@
  ModelConst.ModelGPT4oRealtimePreview :> "openai/gpt-4o-realtime-preview" @@
  ModelConst.ModelGPT4oMiniRealtimePreview :> "openai/gpt-4o-mini-realtime-preview" @@
  ModelConst.ModelGPTAudio :> "openai/gpt-audio" @@
  ModelConst.ModelGPTAudioMini :> "openai/gpt-audio-mini" @@
  ModelConst.ModelGPT4oAudioPreview :> "openai/gpt-4o-audio-preview" @@
  ModelConst.ModelGPT4oMiniAudioPreview :> "openai/gpt-4o-mini-audio-preview" @@
  ModelConst.ModelGPT4oMiniSearchPreview :> "openai/gpt-4o-mini-search-preview" @@
  ModelConst.ModelGPT4oSearchPreview :> "openai/gpt-4o-search-preview" @@
  ModelConst.ModelGPT4oMiniTTS :> "openai/gpt-4o-mini-tts" @@
  ModelConst.ModelGPT4oTranscribe :> "openai/gpt-4o-transcribe" @@
  ModelConst.ModelGPT4oTranscribeDiarize :> "openai/gpt-4o-transcribe-diarize" @@
  ModelConst.ModelGPT4oMiniTranscribe :> "openai/gpt-4o-mini-transcribe" @@
  ModelConst.ModelGPTImage15 :> "openai/gpt-image-1.5" @@
  ModelConst.ModelChatGPTImageLatest :> "openai/chatgpt-image-latest" @@
  ModelConst.ModelGPTImage1 :> "openai/gpt-image-1" @@
  ModelConst.ModelGPTImage1Mini :> "openai/gpt-image-1-mini" @@
  ModelConst.ModelSora2 :> "openai/sora-2" @@
  ModelConst.ModelSora2Pro :> "openai/sora-2-pro" @@
  ModelConst.ModelClaudeOpus :> "anthropic/claude-opus-4.5" @@
  ModelConst.ModelClaudeSonnet :> "anthropic/claude-sonnet-4.5" @@
  ModelConst.ModelClaudeHaiku :> "anthropic/claude-haiku-4.5" @@
  ModelConst.ModelClaudeOpus41 :> "anthropic/claude-opus-4.1" @@
  ModelConst.ModelClaudeOpus4 :> "anthropic/claude-opus-4" @@
  ModelConst.ModelClaudeSonnet4 :> "anthropic/claude-sonnet-4" @@
  ModelConst.ModelClaudeSonnet37 :> "anthropic/claude-3.7-sonnet" @@
  ModelConst.ModelClaudeHaiku35 :> "anthropic/claude-3.5-haiku" @@
  ModelConst.ModelClaudeHaiku3 :> "anthropic/claude-3-haiku" @@
  ModelConst.ModelClaudeOpus3 :> "anthropic/claude-3-opus" @@
  ModelConst.ModelClaudeSonnet3 :> "anthropic/claude-3-sonnet" @@
  ModelConst.ModelGemini3Pro :> "google/gemini-3-pro-preview" @@
  ModelConst.ModelGemini3Flash :> "google/gemini-3-flash-preview" @@
  ModelConst.ModelGemini25Pro :> "google/gemini-2.5-pro" @@
  ModelConst.ModelGemini25Flash :> "google/gemini-2.5-flash" @@
  ModelConst.ModelGemini25FlashLite :> "google/gemini-2.5-flash-lite" @@
  ModelConst.ModelGemini2Flash :> "google/gemini-2.0-flash-001" @@
  ModelConst.ModelGemini2FlashLite :> "google/gemini-2.0-flash-lite-001" @@
  ModelConst.ModelGrok41Fast :> "x-ai/grok-4.1-fast" @@
  ModelConst.ModelGrok3 :> "x-ai/grok-3" @@
  ModelConst.ModelGrok3Mini :> "x-ai/grok-3-mini" @@
  ModelConst.ModelQwen3Next :> "qwen/qwen3-next" @@
  ModelConst.ModelQwen3 :> "qwen/qwen-3-235b" @@
  ModelConst.ModelLlama4 :> "meta-llama/llama-4-maverick" @@
  ModelConst.ModelMistralLarge :> "mistralai/mistral-large"

(* modelMappings[ProviderOpenAI]                                       *)
OpenAIModels ==
  ModelConst.ModelGPT52 :> "gpt-5.2" @@
  ModelConst.ModelGPT52Pro :> "gpt-5.2-pro" @@
  ModelConst.ModelGPT51 :> "gpt-5.1" @@
  ModelConst.ModelGPT5Base :> "gpt-5" @@
  ModelConst.ModelGPT5Pro :> "gpt-5-pro" @@
  ModelConst.ModelGPT5Mini :> "gpt-5-mini" @@
  ModelConst.ModelGPT5Nano :> "gpt-5-nano" @@
  ModelConst.ModelGPT51Codex :> "gpt-5.1-codex" @@
  ModelConst.ModelGPT51CodexMax :> "gpt-5.1-codex-max" @@
  ModelConst.ModelGPT5CodexBase :> "gpt-5-codex" @@
  ModelConst.ModelGPT51CodexMini :> "gpt-5.1-codex-mini" @@
  ModelConst.ModelCodexMiniLatest :> "codex-mini-latest" @@
  ModelConst.ModelGPT5SearchAPI :> "gpt-5-search-api" @@
  ModelConst.ModelComputerUsePreview :> "computer-use-preview" @@
  ModelConst.ModelGPT52ChatLatest :> "gpt-5.2-chat-latest" @@
  ModelConst.ModelGPT51ChatLatest :> "gpt-5.1-chat-latest" @@
  ModelConst.ModelGPT5ChatLatest :> "gpt-5-chat-latest" @@
  ModelConst.ModelChatGPT4oLatest :> "chatgpt-4o-latest" @@
  ModelConst.ModelGPT41 :> "gpt-4.1" @@
  ModelConst.ModelGPT41Mini :> "gpt-4.1-mini" @@
  ModelConst.ModelGPT41Nano :> "gpt-4.1-nano" @@
  ModelConst.ModelGPT4o :> "gpt-4o" @@
  ModelConst.ModelGPT4o20240513 :> "gpt-4o-2024-05-13" @@
  ModelConst.ModelGPT4oMini :> "gpt-4o-mini" @@
  ModelConst.ModelO1 :> "o1" @@
  ModelConst.ModelO1Mini :> "o1-mini" @@
  ModelConst.ModelO1Pro :> "o1-pro" @@
  ModelConst.ModelO1Preview :> "o1-preview" @@
  ModelConst.ModelO3 :> "o3" @@
  ModelConst.ModelO3Mini :> "o3-mini" @@
  ModelConst.ModelO3Pro :> "o3-pro" @@
  ModelConst.ModelO3DeepResearch :> "o3-deep-research" @@
  ModelConst.ModelO4Mini :> "o4-mini" @@
  ModelConst.ModelO4MiniDeepResearch :> "o4-mini-deep-research" @@
  ModelConst.ModelGPTRealtime :> "gpt-realtime" @@
  ModelConst.ModelGPTRealtimeMini :> "gpt-realtime-mini" @@
  ModelConst.ModelGPT4oRealtimePreview :> "gpt-4o-realtime-preview" @@
  ModelConst.ModelGPT4oMiniRealtimePreview :> "gpt-4o-mini-realtime-preview" @@
  ModelConst.ModelGPTAudio :> "gpt-audio" @@
  ModelConst.ModelGPTAudioMini :> "gpt-audio-mini" @@
  ModelConst.ModelGPT4oAudioPreview :> "gpt-4o-audio-preview" @@
  ModelConst.ModelGPT4oMiniAudioPreview :> "gpt-4o-mini-audio-preview" @@
  ModelConst.ModelGPT4oMiniSearchPreview :> "gpt-4o-mini-search-preview" @@
  ModelConst.ModelGPT4oSearchPreview :> "gpt-4o-search-preview" @@
  ModelConst.ModelGPT4oMiniTTS :> "gpt-4o-mini-tts" @@
  ModelConst.ModelGPT4oTranscribe :> "gpt-4o-transcribe" @@
  ModelConst.ModelGPT4oTranscribeDiarize :> "gpt-4o-transcribe-diarize" @@
  ModelConst.ModelGPT4oMiniTranscribe :> "gpt-4o-mini-transcribe" @@
  ModelConst.ModelGPTImage15 :> "gpt-image-1.5" @@
  ModelConst.ModelChatGPTImageLatest :> "chatgpt-image-latest" @@
  ModelConst.ModelGPTImage1 :> "gpt-image-1" @@
  ModelConst.ModelGPTImage1Mini :> "gpt-image-1-mini"

(* modelMappings[ProviderAnthropic]                                    *)
AnthropicModels ==
  ModelConst.ModelClaudeSonnet :> "claude-sonnet-4-5-20250929" @@
  ModelConst.ModelClaudeHaiku :> "claude-haiku-4-5-20251001" @@
  ModelConst.ModelClaudeOpus :> "claude-opus-4-5-20251101" @@
  ModelConst.ModelClaudeOpus41 :> "claude-opus-4-1-20250805" @@
  ModelConst.ModelClaudeSonnet4 :> "claude-sonnet-4-20250514" @@
  ModelConst.ModelClaudeOpus4 :> "claude-opus-4-20250514" @@
  ModelConst.ModelClaudeSonnet37 :> "claude-3-7-sonnet-20250219" @@
  ModelConst.ModelClaudeHaiku35 :> "claude-3-5-haiku-20241022" @@
  ModelConst.ModelClaudeHaiku3 :> "claude-3-haiku-20240307" @@
  ModelConst.ModelClaudeOpus3 :> "claude-3-opus-20240229" @@
  ModelConst.ModelClaudeSonnet3 :> "claude-3-sonnet-20240229"

(* modelMappings[ProviderGoogle]                                       *)
GoogleModels ==
  ModelConst.ModelGemini3Pro :> "gemini-3-pro-preview" @@
  ModelConst.ModelGemini3Flash :> "gemini-3-flash-preview" @@
  ModelConst.ModelGemini25Pro :> "gemini-2.5-pro" @@
  ModelConst.ModelGemini25Flash :> "gemini-2.5-flash" @@
  ModelConst.ModelGemini25FlashLite :> "gemini-2.5-flash-lite" @@
  ModelConst.ModelGemini2Flash :> "gemini-2.0-flash" @@
  ModelConst.ModelGemini2FlashLite :> "gemini-2.0-flash-lite"

(* The modelMappings literal; Ollama has no table, Azure's is empty.       *)
modelMappingsLiteral ==
  ProviderOpenRouter :> OpenRouterModels @@
  ProviderOpenAI :> OpenAIModels @@
  ProviderAnthropic :> AnthropicModels @@
  ProviderGoogle :> GoogleModels @@
  ProviderAzure :> <<>>

(* Variant: init() has not run, Azure's table is the empty literal.        *)
modelMappingsBeforeInit == modelMappingsLiteral

(* init(): modelMappings[ProviderAzure] = modelMappings[ProviderOpenAI]    *)
modelMappings ==
  IF ProviderOpenAI \in DOMAIN modelMappingsLiteral
  THEN [modelMappingsLiteral EXCEPT
          ![ProviderAzure] = modelMappingsLiteral[ProviderOpenAI]]
  ELSE modelMappingsLiteral

(* Variant: 'o' followed by any byte counts as the o-series.               *)
looksLikeOpenAIModelIDAnyO(id) ==
  \/ \E prefix \in {"gpt-", "chatgpt-", "sora-", "whisper-", "tts-",
                     "text-embedding-"} : HasPrefix(id, prefix)
  \/ Len(id) >= 2 /\ ByteAt(id, 1) = "o"

looksLikeOpenAIModelID(id) ==
  \/ HasPrefix(id, "gpt-")
  \/ HasPrefix(id, "chatgpt-")
  \/ HasPrefix(id, "sora-")
  \/ HasPrefix(id, "whisper-")
  \/ HasPrefix(id, "tts-")
  \/ HasPrefix(id, "text-embedding-")
  \/ Len(id) >= 2 /\ ByteAt(id, 1) = "o" /\ ByteAt(id, 2) \in Digits

(* The switch of normalizeAnthropicModelID: shorthand -> dated snapshot.   *)
AnthropicSnapshots ==
  "claude-sonnet-4.5" :> "claude-sonnet-4-5-20250929" @@
  "claude-haiku-4.5" :> "claude-haiku-4-5-20251001" @@
  "claude-opus-4.5" :> "claude-opus-4-5-20251101" @@
  "claude-opus-4.1" :> "claude-opus-4-1-20250805" @@
  "claude-opus-4" :> "claude-opus-4-20250514" @@
  "claude-sonnet-4" :> "claude-sonnet-4-20250514" @@
  "claude-3.7-sonnet" :> "claude-3-7-sonnet-20250219" @@
  "claude-3.5-haiku" :> "claude-3-5-haiku-20241022" @@
  "claude-3-haiku" :> "claude-3-haiku-20240307" @@
  "claude-3-opus" :> "claude-3-opus-20240229" @@
  "claude-3-sonnet" :> "claude-3-sonnet-20240229"

(* The order of the ReplaceAll calls at lines 1533-1542.                   *)
DotDigitOrder == <<"1", "5", "7", "0", "2", "3", "4", "6", "8", "9">>

RECURSIVE ReplaceDotDigits(_, _)
ReplaceDotDigits(raw, k) ==
  IF k > Len(DotDigitOrder) THEN raw
  ELSE ReplaceDotDigits(
         ReplaceAll(raw, "." \o DotDigitOrder[k], "-" \o DotDigitOrder[k]),
         k + 1)

(* Variant: the ":suffix" is cut only from an id without the prefix.       *)
CutAnthropicDecorationEither(raw) ==
  LET i == IndexByte(raw, ":")
  IN IF HasPrefix(raw, "anthropic/") THEN TrimPrefix(raw, "anthropic/")
     ELSE IF i >= 1 THEN SubSeq(raw, 1, i - 1) ELSE raw

(* Lines 1487-1495: the "anthropic/" prefix and the ":suffix" are cut.     *)
CutAnthropicDecoration(raw) ==
  LET after == TrimPrefix(raw, "anthropic/")
      i == IndexByte(after, ":")
  IN IF i >= 1 THEN SubSeq(after, 1, i - 1) ELSE after

(* Variant: every '.' becomes '-', whatever follows it.                    *)
normalizeAnthropicModelIDAllDots(raw) ==
  LET id == CutAnthropicDecoration(raw)
  IN IF id \in DOMAIN AnthropicSnapshots THEN AnthropicSnapshots[id]
     ELSE ReplaceAll(id, ".", "-")

normalizeAnthropicModelID(raw) ==
  LET id == CutAnthropicDecoration(raw)
  IN IF id \in DOMAIN AnthropicSnapshots THEN AnthropicSnapshots[id]
     ELSE ReplaceDotDigits(id, 1)

(* mapping[model] found in modelMappings[providerType]                     *)
HasMapping(providerType, model) ==
  /\ providerType \in DOMAIN modelMappings
  /\ model \in DOMAIN modelMappings[providerType]

(* Lines 1453-1482: the heuristics applied to a model without an entry.    *)
normalizeRaw(providerType, raw) ==
  CASE providerType \in {ProviderOpenAI, ProviderAzure}
         /\ HasPrefix(raw, "openai/") -> TrimPrefix(raw, "openai/")
    [] providerType = ProviderOpenRouter
         /\ ~Contains(raw, "/") /\ looksLikeOpenAIModelID(raw) ->
           "openai/" \o raw
    [] providerType = ProviderAnthropic -> normalizeAnthropicModelID(raw)
    [] providerType = ProviderGoogle
         /\ HasPrefix(raw, "google/") -> TrimPrefix(raw, "google/")
    [] OTHER -> raw

(* Variant: the table is not consulted.                                    *)
resolveModelHeuristicsOnly(providerType, model) ==
  normalizeRaw(providerType, model)

resolveModel(providerType, model) ==
  IF HasMapping(providerType, model)
  THEN modelMappings[providerType][model]
  ELSE normalizeRaw(providerType, model)

(* A call of resolveModel.  The model is one of the Model constants, a     *)
(* table value, or a caller-supplied id: an optional vendor prefix, a      *)
(* stem and an optional OpenRouter ":suffix".                              *)
VendorPrefixes ==
  {"", "openai/", "anthropic/", "google/", "x-ai/", "openai/openai/",
   "anthropic/anthropic/"}

Stems ==
  DOMAIN AnthropicSnapshots \cup
  {"claude-3.9-opus", "claude-instant-1.2", "claude-opus-4.5-20251101",
   "gpt-5.2", "gpt-oss-120b", "gpt", "chatgpt-4o-latest", "sora-2",
   "whisper-1", "tts-1-hd", "text-embedding-3-small", "o1", "o3-mini",
   "o", "omni-moderation", "ollama3", "gemini-2.5-pro", "llama3.1:8b",
   "mistral.large", "v1.", ".5", "a..7", "1.10.2", "openai", "",
   "claude-opus.4"}

Suffixes == {"", ":thinking", ":v1.5"}

ModelIDs ==
  {ModelConst[k] : k \in DOMAIN ModelConst}
  \cup UNION {{modelMappings[p][m] : m \in DOMAIN modelMappings[p]} :
                p \in DOMAIN modelMappings}
  \cup {pre \o stem \o suf :
          pre \in VendorPrefixes, stem \in Stems, suf \in Suffixes}

InitResolve ==
  /\ NoOrch
  /\ Debug = FALSE
  /\ NoCallers
  /\ stream = NoStream
  /\ pair = NoPair
  /\ resolved \in {[pc |-> "call", providerType |-> p, model |-> m,
                     id |-> ""] : p \in ProviderTypes, m \in ModelIDs}
  /\ wire = NoWire
  /\ decoded = NoDecode

(* id := resolveModel(providerType, model)                                 *)
Resolve ==
  /\ resolved.pc = "call"
  /\ resolved' =
       [resolved EXCEPT !.id = resolveModel(resolved.providerType,
                                            resolved.model),
                        !.pc = "done"]
  /\ UNCHANGED <<orchVars, Debug, concVars, wire, decoded, stream, pair>>

NextResolve == Resolve

SpecResolve == InitResolve /\ [][NextResolve]_vars

(* ----------------------- built-in tools on the wire -------------------- *)
(* The fields of BuiltinTool besides Type, with the kind of their Go type: *)
(* pointer, slice, int, interface (any) or string.                         *)
FieldKind ==
  [UserLocation |-> "ptr",
   SearchFilter |-> "ptr",
   VectorStoreIDs |-> "slice",
   MaxNumResults |-> "int",
   FileFilter |-> "any",
   Container |-> "any",
   ServerLabel |-> "string",
   ServerURL |-> "string",
   ServerDescription |-> "string",
   ConnectorID |-> "string",
   Authorization |-> "string",
   RequireApproval |-> "any",
   AllowedTools |-> "slice",
   ImageSize |-> "string",
   ImageQuality |-> "string",
   ImageFormat |-> "string",
   ImageCompression |-> "int",
   ImageBackground |-> "string",
   PartialImages |-> "int",
   DisplayWidth |-> "int",
   DisplayHeight |-> "int",
   Environment |-> "string" ]

FieldNames == DOMAIN FieldKind

(* The tool type whose options a field is declared under.                  *)
FieldTag ==
  [UserLocation |-> "web_search",
   SearchFilter |-> "web_search",
   VectorStoreIDs |-> "file_search",
   MaxNumResults |-> "file_search",
   FileFilter |-> "file_search",
   Container |-> "code_interpreter",
   ServerLabel |-> "mcp",
   ServerURL |-> "mcp",
   ServerDescription |-> "mcp",
   ConnectorID |-> "mcp",
   Authorization |-> "mcp",
   RequireApproval |-> "mcp",
   AllowedTools |-> "mcp",
   ImageSize |-> "image_generation",
   ImageQuality |-> "image_generation",
   ImageFormat |-> "image_generation",
   ImageCompression |-> "image_generation",
   ImageBackground |-> "image_generation",
   PartialImages |-> "image_generation",
   DisplayWidth |-> "computer_use_preview",
   DisplayHeight |-> "computer_use_preview",
   Environment |-> "computer_use_preview" ]

(* The key buildBuiltinTool stores a field under.                          *)
WireKey ==
  [UserLocation |-> "user_location",
   SearchFilter |-> "filters",
   VectorStoreIDs |-> "vector_store_ids",
   MaxNumResults |-> "max_num_results",
   FileFilter |-> "filters",
   Container |-> "container",
   ServerLabel |-> "server_label",
   ServerURL |-> "server_url",
   ServerDescription |-> "server_description",
   ConnectorID |-> "connector_id",
   Authorization |-> "authorization",
   RequireApproval |-> "require_approval",
   AllowedTools |-> "allowed_tools",
   ImageSize |-> "size",
   ImageQuality |-> "quality",
   ImageFormat |-> "output_format",
   ImageCompression |-> "compression",
   ImageBackground |-> "background",
   PartialImages |-> "partial_images",
   DisplayWidth |-> "display_width",
   DisplayHeight |-> "display_height",
   Environment |-> "environment" ]

(* A nil pointer / nil interface.                                          *)
Nil == "nil"

(* The zero value of a field of the given kind (a nil slice is the empty   *)
(* sequence), and two other values of it.  For a pointer: one to a zero    *)
(* struct and one to a filled struct; for an interface: a boxed empty      *)
(* string and a boxed config.                                              *)
ZeroValue(kind) ==
  CASE kind = "int" -> 0
    [] kind = "slice" -> <<>>
    [] kind = "string" -> ""
    [] OTHER -> Nil

SetValue(kind, n) ==
  CASE kind = "int" -> IF n = 1 THEN 1 ELSE -1
    [] kind = "slice" -> IF n = 1 THEN <<"a">> ELSE <<"a", "b">>
    [] kind = "string" -> IF n = 1 THEN "x" ELSE "y"
    [] kind = "ptr" -> IF n = 1 THEN "&{}" ELSE "&{x}"
    [] OTHER -> IF n = 1 THEN "" ELSE "cfg"

(* BuiltinTool{Type: t, f: SetValue(.., set[f]) for the fields f of set}   *)
BuiltinTool(t, set) ==
  [f \in FieldNames \cup {"Type"} |->
     IF f = "Type" THEN t
     ELSE IF f \in DOMAIN set THEN SetValue(FieldKind[f], set[f])
     ELSE ZeroValue(FieldKind[f])]

(* tool[key] = value, when cond holds                                      *)
PutIf(tool, cond, key, value) ==
  IF cond
  THEN [k \in DOMAIN tool \cup {key} |-> IF k = key THEN value ELSE tool[k]]
  ELSE tool

(* The `if cond { tool[key] = value }` statements of one case, in order.   *)
RECURSIVE PutAll(_, _)
PutAll(tool, puts) ==
  IF puts = <<>> THEN tool
  ELSE PutAll(PutIf(tool, Head(puts)[1], Head(puts)[2], Head(puts)[3]),
              Tail(puts))

(* Variant: the tool is marshalled as the struct it is, every field that   *)
(* the case of its kind would emit, whatever the tag.                      *)
buildBuiltinToolAnyTag(bt) ==
  LET set(f) == CASE FieldKind[f] = "int" -> bt[f] > 0
             [] FieldKind[f] = "slice" -> Len(bt[f]) > 0
             [] FieldKind[f] = "string" -> bt[f] # ""
             [] OTHER -> bt[f] # Nil
  IN [k \in {"type"} \cup {WireKey[f] : f \in {g \in FieldNames : set(g)}} |->
        IF k = "type" THEN bt.Type
        ELSE bt[CHOOSE f \in FieldNames : WireKey[f] = k /\ set(f)]]

(* buildBuiltinTool: an unknown bt.Type matches no case of the switch.     *)
buildBuiltinTool(bt) ==
  LET tool == [k \in {"type"} |-> bt.Type]
  IN
  CASE bt.Type = "web_search" ->
         PutAll(tool, <<
           <<bt.UserLocation # Nil, "user_location", bt.UserLocation>>,
           <<bt.SearchFilter # Nil, "filters", bt.SearchFilter>> >>)
    [] bt.Type = "file_search" ->
         PutAll(tool, <<
           <<Len(bt.VectorStoreIDs) > 0, "vector_store_ids", bt.VectorStoreIDs>>,
           <<bt.MaxNumResults > 0, "max_num_results", bt.MaxNumResults>>,
           <<bt.FileFilter # Nil, "filters", bt.FileFilter>> >>)
    [] bt.Type = "code_interpreter" ->
         PutAll(tool, <<
           <<bt.Container # Nil, "container", bt.Container>> >>)
    [] bt.Type = "mcp" ->
         PutAll(tool, <<
           <<bt.ServerLabel # "", "server_label", bt.ServerLabel>>,
           <<bt.ServerURL # "", "server_url", bt.ServerURL>>,
           <<bt.ServerDescription # "", "server_description", bt.ServerDescription>>,
           <<bt.ConnectorID # "", "connector_id", bt.ConnectorID>>,
           <<bt.Authorization # "", "authorization", bt.Authorization>>,
           <<bt.RequireApproval # Nil, "require_approval", bt.RequireApproval>>,
           <<Len(bt.AllowedTools) > 0, "allowed_tools", bt.AllowedTools>> >>)
    [] bt.Type = "image_generation" ->
         PutAll(tool, <<
           <<bt.ImageSize # "", "size", bt.ImageSize>>,
           <<bt.ImageQuality # "", "quality", bt.ImageQuality>>,
           <<bt.ImageFormat # "", "output_format", bt.ImageFormat>>,
           <<bt.ImageCompression > 0, "compression", bt.ImageCompression>>,
           <<bt.ImageBackground # "", "background", bt.ImageBackground>>,
           <<bt.PartialImages > 0, "partial_images", bt.PartialImages>> >>)
    [] bt.Type = "computer_use_preview" ->
         PutAll(tool, <<
           <<bt.DisplayWidth > 0, "display_width", bt.DisplayWidth>>,
           <<bt.DisplayHeight > 0, "display_height", bt.DisplayHeight>>,
           <<bt.Environment # "", "environment", bt.Environment>> >>)
    [] bt.Type = "shell" -> tool
    [] bt.Type = "apply_patch" -> tool
    [] OTHER -> tool

(* A function tool of req.Tools, passed through as it is.                  *)
FunctionTool == [type |-> "function", name |-> "f"]

(* Lines 377-386 of sendResponses: the tools array of the request.         *)
RECURSIVE BuiltinToolsOnWire(_)
BuiltinToolsOnWire(bts) ==
  IF bts = <<>> THEN <<>>
  ELSE <<buildBuiltinTool(Head(bts))>> \o BuiltinToolsOnWire(Tail(bts))

ToolsArray(req) == BuiltinToolsOnWire(req.BuiltinTools) \o req.Tools

(* The tools a request can carry: of each type, the known ones and an      *)
(* unknown one, with up to n fields set (of any tag), or with              *)
(* every field set.                                                        *)
RECURSIVE FieldSetsUpTo(_)
FieldSetsUpTo(n) ==
  IF n = 0 THEN {{}}
  ELSE LET smaller == FieldSetsUpTo(n - 1)
       IN smaller \cup {fs \cup {f} : fs \in smaller, f \in FieldNames}

FieldSettings(n) ==
  UNION {[fs -> {1, 2}] : fs \in FieldSetsUpTo(n)}
  \cup {[f \in FieldNames |-> v] : v \in {1, 2}}

ToolTypes == BuiltinTypes \cup {UnknownType}

ToolValues(n) ==
  {BuiltinTool(t, set) : t \in ToolTypes, set \in FieldSettings(n)}

BareTools == {BuiltinTool(t, <<>>) : t \in ToolTypes}

WireRequests(n) ==
  {[BuiltinTools |-> <<bt>>, Tools |-> <<>>] : bt \in ToolValues(n)}
  \cup {[BuiltinTools |-> <<bt1, bt2>>, Tools |-> ft] :
          bt1 \in BareTools, bt2 \in BareTools,
          ft \in {<<>>, <<FunctionTool>>}}

InitWire ==
  /\ NoOrch
  /\ Debug = FALSE
  /\ NoCallers
  /\ stream = NoStream
  /\ pair = NoPair
  /\ resolved = NoResolve
  /\ wire \in {[pc |-> "call", req |-> r, tools |-> <<>>, err |-> NoErr] :
                 r \in WireRequests(MaxSetFields)}
  /\ decoded = NoDecode

(* sendResponses up to json.Marshal(respReq): nothing on the way returns   *)
(* an error for a tool.                                                    *)
BuildTools ==
  /\ wire.pc = "call"
  /\ wire' = [wire EXCEPT !.tools = ToolsArray(wire.req), !.pc = "built"]
  /\ UNCHANGED <<orchVars, Debug, concVars, resolved, decoded, stream, pair>>

NextWire == BuildTools

SpecWire == InitWire /\ [][NextWire]_vars

(* -------------------------- response decoding -------------------------- *)
(* A JSON action payload: its JSON type and, for an object, its members as *)
(* <<key, JSON type of the value, value>>.                                 *)
NoAction == [t |-> "absent", members |-> {}]

ClickAction ==
  [t |-> "object",
   members |-> {<<"type", "string", "click">>, <<"x", "number", "1">>,
                <<"y", "number", "2">>}]

LsAction ==
  [t |-> "object",
   members |-> {<<"commands", "array", "ls">>,
                <<"timeout_ms", "number", "1000">>}]

StringAction == [t |-> "string", members |-> {}]

MistypedAction ==
  [t |-> "object",
   members |-> {<<"type", "number", "5">>, <<"commands", "string", "ls">>}]

ActionPayloads ==
  {NoAction, ClickAction, LsAction, StringAction, MistypedAction}

(* The json-tagged fields of ComputerAction and of ShellAction, with the   *)
(* JSON type their Go type accepts.                                        *)
ComputerActionFields ==
  {<<"type", "string">>, <<"x", "number">>, <<"y", "number">>,
   <<"button", "string">>, <<"scroll_x", "number">>,
   <<"scroll_y", "number">>, <<"keys", "array">>, <<"text", "string">>}

ShellActionFields ==
  {<<"commands", "array">>, <<"timeout_ms", "number">>,
   <<"max_output_length", "number">>}

(* json.Unmarshal(raw, &action) into a struct with the given fields: an    *)
(* error when raw is no object or gives a field a value of another JSON    *)
(* type; members with unknown keys are ignored.  value holds the fields    *)
(* that were filled; the others keep their zero value.                     *)
Unmarshal(raw, fields) ==
  [err |-> \/ raw.t # "object"
           \/ \E m \in raw.members : \E f \in fields :
                f[1] = m[1] /\ f[2] # m[2],
   value |-> {m \in raw.members : <<m[1], m[2]>> \in fields}]

(* A *ComputerAction / *ShellAction: nil, or a pointer to a decoded value. *)
NilAction == [nil |-> TRUE, value |-> {}]
PointerTo(value) == [nil |-> FALSE, value |-> value]

(* An annotation of a content part, with the fields a Citation copies.     *)
Annotation(type, url, fileID) ==
  [type |-> type, url |-> url, title |-> "", file_id |-> fileID,
   filename |-> "", start_index |-> 0, end_index |-> 0]

(* A part of an item's "content" array.                                    *)
ContentPart(type, text, annotations) ==
  [type |-> type, text |-> text, annotations |-> annotations]

(* An item of the "output" array.  id, type, status and call_id are JSON   *)
(* strings; arguments is given by its JSON type (the struct wants a        *)
(* string); content is the array of content parts, here the one            *)
(* output_text part that holds text, or none.                              *)
OutputItem(type, arguments, text, action) ==
  [id |-> "", type |-> type, status |-> "completed", call_id |-> "call",
   arguments |-> arguments,
   content |-> IF text = "" THEN <<>>
               ELSE <<ContentPart("output_text", text, <<>>)>>,
   action |-> action]

ItemTypes ==
  {"message", "web_search_call", "file_search_call", "mcp_call",
   "code_interpreter_call", "image_generation_call", "computer_call",
   "shell_call", "apply_patch_call"}

(* The items of the modelled bodies: a message, a plain tool call, an item *)
(* of a type the switch has no case for, and the two calls with an action. *)
Items ==
  {OutputItem("message", "absent", txt, NoAction) : txt \in {"", "hello"}}
  \cup {OutputItem(t, a, "", NoAction) :
          t \in {"message", "mcp_call", "reasoning", "computer_call",
                 "shell_call"},
          a \in {"string", "object"}}
  \cup {OutputItem(t, "absent", "", raw) :
          t \in {"computer_call", "shell_call"}, raw \in ActionPayloads}

(* The top-level "error" member: absent (or null), or an object whose code *)
(* is a JSON string or a JSON number.                                      *)
NoErrorObject ==
  [present |-> FALSE, codeType |-> "string", code |-> "", message |-> ""]

ErrorObjects ==
  {NoErrorObject}
  \cup {[present |-> TRUE, codeType |-> ct, code |-> "rate_limit",
         message |-> "slow down"] : ct \in {"string", "number"}}

(* A choice of a chat completions body: message.content by its JSON type.  *)
Choices == {[contentType |-> ct, content |-> "hi"] : ct \in {"string", "number"}}

(* The output array with the items numbered by their place.  The bodies    *)
(* below hold up to n items or choices.                                    *)
Numbered(items) ==
  [k \in 1..Len(items) |-> [items[k] EXCEPT !.id = "item_" \o ToString(k)]]

InvalidJSON ==
  [valid |-> FALSE, error |-> NoErrorObject, output |-> <<>>,
   output_text |-> "", choices |-> <<>>]

ResponsesBodies(n) ==
  {InvalidJSON}
  \cup {[valid |-> TRUE, error |-> e, output |-> Numbered(o),
         output_text |-> ot, choices |-> <<>>] :
          e \in ErrorObjects, o \in SeqsUpTo(Items, n),
          ot \in {"", "convenience"}}

ChatBodies(n) ==
  {InvalidJSON}
  \cup {[valid |-> TRUE, error |-> e, output |-> <<>>, output_text |-> "",
         choices |-> c] :
          e \in ErrorObjects, c \in SeqsUpTo(Choices, n)}

(* json.Unmarshal(body, &result) returns nil: the body is JSON and every   *)
(* member the result struct names has the JSON type of its field.          *)
UnmarshalOK(body) ==
  /\ body.valid
  /\ body.error.present => body.error.codeType = "string"
  /\ \A k \in 1..Len(body.output) : body.output[k].arguments # "object"
  /\ \A k \in 1..Len(body.choices) : body.choices[k].contentType = "string"

DecodeError(kind, code, message) ==
  [kind |-> kind, Code |-> code, Message |-> message]

NoDecodeError == DecodeError("nil", "", "")

NoResponse ==
  [nil |-> TRUE, Content |-> "", Citations |-> <<>>, ToolCalls |-> <<>>]

(* ResponsesToolCall{ID: item.ID, Type: item.Type, Status: item.Status,    *)
(* CallID: item.CallID}                                                    *)
ToolCall(item) ==
  [ID |-> item.id, Type |-> item.type, Status |-> item.status,
   CallID |-> item.call_id, Arguments |-> "", Action |-> NilAction,
   ShellAction |-> NilAction]

(* One pass of the switch on item.Type: the tool calls it appends.         *)
ToolCallsOf(item) ==
  CASE item.type \in {"web_search_call", "file_search_call", "mcp_call",
                      "code_interpreter_call"} ->
         <<[ToolCall(item) EXCEPT
              !.Arguments = IF item.arguments = "string" THEN "args" ELSE ""]>>
    [] item.type \in {"image_generation_call", "apply_patch_call"} ->
         <<ToolCall(item)>>
    [] item.type = "computer_call" ->
         LET d == Unmarshal(item.action, ComputerActionFields)
         IN <<[ToolCall(item) EXCEPT
                 !.Action = IF item.action.t # "absent" /\ ~d.err
                            THEN PointerTo(d.value) ELSE NilAction]>>
    [] item.type = "shell_call" ->
         LET d == Unmarshal(item.action, ShellActionFields)
         IN <<[ToolCall(item) EXCEPT
                 !.ShellAction = IF item.action.t # "absent" /\ ~d.err
                                 THEN PointerTo(d.value) ELSE NilAction]>>
    [] OTHER -> <<>>

(* Citation{Type: ann.Type, URL: ann.URL, ...}                             *)
Citation(ann) ==
  [Type |-> ann.type, URL |-> ann.url, Title |-> ann.title,
   FileID |-> ann.file_id, Filename |-> ann.filename,
   StartIndex |-> ann.start_index, EndIndex |-> ann.end_index]

(* if c.Type == "output_text" || c.Type == "text"                          *)
IsTextPart(c) == c.type \in {"output_text", "text"}

(* The inner loop over c.Annotations: the citations one part appends.      *)
CitationsOfPartReversed(c) ==
  IF IsTextPart(c)
  THEN [a \in 1..Len(c.annotations) |->
          Citation(c.annotations[Len(c.annotations) + 1 - a])]
  ELSE <<>>

CitationsOfPart(c) ==
  IF IsTextPart(c)
  THEN [a \in 1..Len(c.annotations) |-> Citation(c.annotations[a])]
  ELSE <<>>

(* The loop over item.Content: the text it adds to textContent ...         *)
RECURSIVE ContentText(_)
ContentText(content) ==
  IF content = <<>> THEN ""
  ELSE (IF IsTextPart(Head(content)) THEN Head(content).text ELSE "")
       \o ContentText(Tail(content))

(* ... and the citations it appends.                                       *)
RECURSIVE ContentCitations(_)
ContentCitations(content) ==
  IF content = <<>> THEN <<>>
  ELSE CitationsOfPart(Head(content)) \o ContentCitations(Tail(content))

(* case "message" of the switch on item.Type.                              *)
TextOf(item) == IF item.type = "message" THEN ContentText(item.content) ELSE ""

CitationsOf(item) ==
  IF item.type = "message" THEN ContentCitations(item.content) ELSE <<>>

RECURSIVE OutputToolCalls(_)
OutputToolCalls(output) ==
  IF output = <<>> THEN <<>>
  ELSE ToolCallsOf(Head(output)) \o OutputToolCalls(Tail(output))

RECURSIVE OutputTextContent(_)
OutputTextContent(output) ==
  IF output = <<>> THEN ""
  ELSE TextOf(Head(output)) \o OutputTextContent(Tail(output))

RECURSIVE OutputCitations(_)
OutputCitations(output) ==
  IF output = <<>> THEN <<>>
  ELSE CitationsOf(Head(output)) \o OutputCitations(Tail(output))

(* if textContent == "" && result.OutputText != "" { textContent =         *)
(* result.OutputText }                                                     *)
FinalTextPrefersConvenience(textContent, outputText) ==
  IF outputText # "" THEN outputText ELSE textContent

FinalText(textContent, outputText) ==
  IF textContent = "" /\ outputText # "" THEN outputText ELSE textContent

(* parseResponsesResponse on the body in detail.                           *)
parseResponsesBody(body) ==
  IF ~UnmarshalOK(body)
  THEN [resp |-> NoResponse, err |-> DecodeError("parse", "", "parse error")]
  ELSE IF body.error.present
  THEN [resp |-> NoResponse,
        err |-> DecodeError("backend", body.error.code, body.error.message)]
  ELSE LET textContent == OutputTextContent(body.output)
       IN [resp |-> [nil |-> FALSE,
                     Content |-> FinalText(textContent, body.output_text),
                     Citations |-> OutputCitations(body.output),
                     ToolCalls |-> OutputToolCalls(body.output)],
           err |-> NoDecodeError]

(* parseResponse on the body in detail.                                    *)
parseChatBody(body) ==
  IF ~UnmarshalOK(body)
  THEN [resp |-> NoResponse, err |-> DecodeError("parse", "", "parse error")]
  ELSE IF body.error.present
  THEN [resp |-> NoResponse,
        err |-> DecodeError("backend", body.error.code, body.error.message)]
  ELSE IF Len(body.choices) = 0
  THEN [resp |-> NoResponse,
        err |-> DecodeError("nochoices", "", "no response choices")]
  ELSE [resp |-> [nil |-> FALSE, Content |-> body.choices[1].content,
                  Citations |-> <<>>, ToolCalls |-> <<>>],
        err |-> NoDecodeError]

InitDecode ==
  /\ NoOrch
  /\ Debug = FALSE
  /\ NoCallers
  /\ stream = NoStream
  /\ pair = NoPair
  /\ resolved = NoResolve
  /\ wire = NoWire
  /\ decoded \in
       {[pc |-> "body", api |-> "responses", body |-> bd,
         resp |-> NoResponse, err |-> NoDecodeError] :
          bd \in ResponsesBodies(MaxItems)}
       \cup
       {[pc |-> "body", api |-> "chat", body |-> bd,
         resp |-> NoResponse, err |-> NoDecodeError] :
          bd \in ChatBodies(MaxItems)}

ParseResponses ==
  /\ decoded.pc = "body"
  /\ decoded.api = "responses"
  /\ LET r == parseResponsesBody(decoded.body)
     IN decoded' = [decoded EXCEPT !.resp = r.resp, !.err = r.err,
                                   !.pc = "done"]
  /\ UNCHANGED <<orchVars, Debug, concVars, resolved, wire, stream, pair>>

ParseChat ==
  /\ decoded.pc = "body"
  /\ decoded.api = "chat"
  /\ LET r == parseChatBody(decoded.body)
     IN decoded' = [decoded EXCEPT !.resp = r.resp, !.err = r.err,
                                   !.pc = "done"]
  /\ UNCHANGED <<orchVars, Debug, concVars, resolved, wire, stream, pair>>

NextDecode == ParseResponses \/ ParseChat

SpecDecode == InitDecode /\ [][NextDecode]_vars

(* ----------------------- message items in detail ----------------------- *)
(* The content parts of the modelled messages: the type of the part,       *)
(* whether it holds text, and the number of its annotations.               *)
PartShapes ==
  {[type |-> "output_text", hasText |-> TRUE, anns |-> 2],
   [type |-> "text", hasText |-> TRUE, anns |-> 1],
   [type |-> "refusal", hasText |-> TRUE, anns |-> 1],
   [type |-> "output_text", hasText |-> FALSE, anns |-> 0],
   [type |-> "text", hasText |-> FALSE, anns |-> 1]}

(* Messages of up to n parts, and one item of another type that carries a  *)
(* content array as well.                                                  *)
ItemShapes(n) ==
  {[type |-> "message", parts |-> ps] : ps \in SeqsUpTo(PartShapes, n)}
  \cup {[type |-> "reasoning",
          parts |-> <<[type |-> "text", hasText |-> TRUE, anns |-> 1]>>]}

(* Texts and annotations are told apart by their place k.j(.a) in the body.*)
Place(k, j) == ToString(k) \o "." \o ToString(j)

AnnotationAt(k, j, a) ==
  IF a % 2 = 1
  THEN Annotation("url_citation",
                  "https://" \o Place(k, j) \o "." \o ToString(a), "")
  ELSE Annotation("file_citation", "",
                  "file_" \o Place(k, j) \o "." \o ToString(a))

PartAt(k, j, shape) ==
  ContentPart(shape.type,
              IF shape.hasText THEN "<" \o Place(k, j) \o ">" ELSE "",
              [a \in 1..shape.anns |-> AnnotationAt(k, j, a)])

ItemAt(k, shape) ==
  [id |-> "item_" \o ToString(k), type |-> shape.type,
   status |-> "completed", call_id |-> "call", arguments |-> "absent",
   content |-> [j \in 1..Len(shape.parts) |-> PartAt(k, j, shape.parts[j])],
   action |-> NoAction]

(* Bodies of no, one or two such items, with and without output_text.      *)
MessageBodies(n) ==
  {[valid |-> TRUE, error |-> NoErrorObject,
    output |-> [k \in 1..Len(o) |-> ItemAt(k, o[k])],
    output_text |-> ot, choices |-> <<>>] :
     o \in {<<>>} \cup {<<x>> : x \in ItemShapes(n)}
           \cup {<<x, y>> : x \in ItemShapes(n), y \in ItemShapes(n)},
     ot \in {"", "convenience"}}

InitMessages ==
  /\ NoOrch
  /\ Debug = FALSE
  /\ NoCallers
  /\ stream = NoStream
  /\ pair = NoPair
  /\ resolved = NoResolve
  /\ wire = NoWire
  /\ decoded \in
       {[pc |-> "body", api |-> "responses", body |-> bd,
         resp |-> NoResponse, err |-> NoDecodeError] :
          bd \in MessageBodies(MaxParts)}

NextMessages == ParseResponses

SpecMessages == InitMessages /\ [][NextMessages]_vars

(* ------------------------------ SendStream ----------------------------- *)
(* What the server sends: lines, each followed by "\n" except, when the    *)
(* connection closes early, the last; then the transport reports io.EOF or *)
(* another error.  A line is given by its kind and, for a chunk, the delta *)
(* content of its first choice; cr says that it ends in "\r".              *)
SentLine(kind, content, cr) == [kind |-> kind, content |-> content, cr |-> cr]

ChunkJSON(content) ==
  "{\"choices\":[{\"delta\":{\"content\":\"" \o content \o "\"}}]}"

EncodeLine(l) ==
  (CASE l.kind = "chunk" -> "data: " \o ChunkJSON(l.content)
     [] l.kind = "nochoice" -> "data: {\"choices\":[]}"
     [] l.kind = "truncated" -> "data: {\"choices\":[{\"del"
     [] l.kind = "done" -> "data: [DONE]"
     [] l.kind = "comment" -> ": keep-alive"
     [] OTHER -> "")
  \o (IF l.cr THEN "\r" ELSE "")

RECURSIVE EncodeLines(_, _)
EncodeLines(lines, newline) ==
  IF lines = <<>> THEN ""
  ELSE EncodeLine(Head(lines))
       \o (IF Len(lines) > 1 \/ newline THEN "\n" ELSE "")
       \o EncodeLines(Tail(lines), newline)

SentLines ==
  {SentLine("chunk", c, FALSE) : c \in {"a", "b", ""}}
  \cup {SentLine("chunk", "a", TRUE)}
  \cup {SentLine(k, "", FALSE) :
          k \in {"nochoice", "truncated", "done", "comment", "blank"}}

Streams(n) ==
  {[lines |-> ls, newline |-> nl, end |-> e] :
     ls \in SeqsUpTo(SentLines, n), nl \in BOOLEAN,
     e \in {"EOF", "reset"}}

(* bytes.TrimSpace, for the white space of the modelled bodies.            *)
WhiteSpace == {" ", "\t", "\r", "\n"}

RECURSIVE TrimSpace(_)
TrimSpace(s) ==
  IF s = "" THEN s
  ELSE IF ByteAt(s, 1) \in WhiteSpace THEN TrimSpace(SubSeq(s, 2, Len(s)))
  ELSE IF ByteAt(s, Len(s)) \in WhiteSpace
  THEN TrimSpace(SubSeq(s, 1, Len(s) - 1))
  ELSE s

HasSuffix(s, suffix) ==
  Len(s) >= Len(suffix) /\ SubSeq(s, Len(s) - Len(suffix) + 1, Len(s)) = suffix

(* json.Unmarshal(data, &chunk) for the JSON texts above: the error, and   *)
(* the delta contents of chunk.Choices.                                    *)
UnmarshalChunk(data) ==
  LET open == "{\"choices\":[{\"delta\":{\"content\":\""
      close == "\"}}]}"
  IN IF data = "{\"choices\":[]}" THEN [err |-> FALSE, Choices |-> <<>>]
     ELSE IF /\ HasPrefix(data, open)
             /\ HasSuffix(data, close)
             /\ Len(data) >= Len(open) + Len(close)
     THEN [err |-> FALSE,
           Choices |-> <<SubSeq(data, Len(open) + 1, Len(data) - Len(close))>>]
     ELSE [err |-> TRUE, Choices |-> <<>>]

(* reader.ReadBytes('\n') on the bytes left: the line up to and including  *)
(* the first "\n", or all that is left and the transport's error.          *)
ReadBytes(rest, end) ==
  LET i == IndexByte(rest, "\n")
  IN IF i = 0 THEN [line |-> rest, err |-> end, rest |-> ""]
     ELSE [line |-> SubSeq(rest, 1, i), err |-> "nil",
           rest |-> SubSeq(rest, i + 1, Len(rest))]

NewStream(sent) ==
  [pc |-> "read", sent |-> sent,
   rest |-> EncodeLines(sent.lines, sent.newline),
   fullContent |-> "", pending |-> "", dispatched |-> 0, calls |-> <<>>,
   resp |-> NoResponse, err |-> NoDecodeError]

(* break, and the return after the loop.                                   *)
ReturnStream(s) ==
  [s EXCEPT !.pc = "done",
            !.resp = [NoResponse EXCEPT !.nil = FALSE,
                                        !.Content = s.fullContent]]

(* fullContent.WriteString(content), up to the call of callback(content).  *)
Dispatch(s, content) ==
  [s EXCEPT !.fullContent = @ \o content, !.pending = content,
            !.dispatched = @ + 1, !.pc = "callback"]

(* callback(content) has run.                                              *)
DeliverNewestFirst(s, content) ==
  [s EXCEPT !.calls = <<content>> \o @, !.pending = "", !.pc = "read"]

Deliver(s, content) ==
  [s EXCEPT !.calls = Append(@, content), !.pending = "", !.pc = "read"]

(* One pass of the read loop, up to the callback or to the return.         *)
ReadPass(s) ==
  LET r == ReadBytes(s.rest, s.sent.end)
      t == [s EXCEPT !.rest = r.rest]
      line == TrimSpace(r.line)
      data == TrimPrefix(line, "data: ")
      chunk == UnmarshalChunk(data)
  IN IF r.err = "EOF" THEN ReturnStream(t)
     ELSE IF r.err # "nil"
     THEN [t EXCEPT !.pc = "done",
                    !.err = DecodeError("read", "", "stream read error")]
     ELSE IF ~HasPrefix(line, "data: ") THEN t
     ELSE IF data = "[DONE]" THEN ReturnStream(t)
     ELSE IF chunk.err THEN t
     ELSE IF Len(chunk.Choices) > 0 THEN Dispatch(t, chunk.Choices[1])
     ELSE t

InitStream ==
  /\ NoOrch
  /\ Debug = FALSE
  /\ NoCallers
  /\ pair = NoPair
  /\ resolved = NoResolve
  /\ wire = NoWire
  /\ decoded = NoDecode
  /\ stream \in {NewStream(sent) : sent \in Streams(MaxLines)}

ReadLine ==
  /\ stream.pc = "read"
  /\ stream' = ReadPass(stream)
  /\ UNCHANGED <<orchVars, Debug, concVars, resolved, wire, decoded, pair>>

Callback ==
  /\ stream.pc = "callback"
  /\ stream' = Deliver(stream, stream.pending)
  /\ UNCHANGED <<orchVars, Debug, concVars, resolved, wire, decoded, pair>>

NextStream == ReadLine \/ Callback

SpecStream == InitStream /\ [][NextStream]_vars

(* ------------------- messages of a Responses request ------------------- *)
(* A message's Content is an `any`: a string, or the content parts the     *)
(* builder makes of a user message when images or documents are attached.  *)
StringContent(s) == [kind |-> "string", text |-> s, parts |-> <<>>]
PartsContent(parts) == [kind |-> "parts", text |-> "", parts |-> parts]
IsString(content) == content.kind = "string"

Message(role, content) == [Role |-> role, Content |-> content]

RECURSIVE Join(_, _)
Join(elems, sep) ==
  IF Len(elems) = 0 THEN ""
  ELSE IF Len(elems) = 1 THEN elems[1]
  ELSE elems[1] \o sep \o Join(Tail(elems), sep)

(* The system prompt buildMessages arrives at, for a builder without       *)
(* template variables.                                                     *)
SystemPrompt(bb) ==
  LET json == IF bb.jsonMode /\ bb.system # ""
                THEN bb.system \o "\n\nIMPORTANT: Respond with valid JSON only. No markdown, no explanation."
                ELSE IF bb.jsonMode
                THEN "Respond with valid JSON only. No markdown, no explanation."
                ELSE bb.system
  IN IF Len(bb.fileContext) > 0
     THEN json \o "\n\n# Context\n" \o Join(bb.fileContext, "\n\n")
     ELSE json

(* The content parts the last user message is converted to.                *)
Multimodal(bb, content) ==
  (IF IsString(content) /\ content.text # ""
     THEN <<[Type |-> "text", Text |-> content.text]>> ELSE <<>>)
  \o [k \in 1..Len(bb.images) |-> [Type |-> "image_url", Text |-> bb.images[k]]]
  \o [k \in 1..Len(bb.documents) |-> [Type |-> "document", Text |-> bb.documents[k]]]

buildMessages(bb) ==
  LET system == SystemPrompt(bb)
      msgs == (IF system # ""
                 THEN <<Message("system", StringContent(system))>> ELSE <<>>)
              \o bb.messages
      users == {i \in 1..Len(msgs) : msgs[i].Role = "user"}
      last == CHOOSE i \in users : \A j \in users : j <= i
  IN IF (Len(bb.images) > 0 \/ Len(bb.documents) > 0) /\ users # {}
     THEN [msgs EXCEPT ![last].Content =
             PartsContent(Multimodal(bb, msgs[last].Content))]
     ELSE msgs

(* The `input` of the request: the bare string of a lone user message, or  *)
(* one item per message.                                                   *)
ResponsesInput(messages) ==
  IF /\ Len(messages) = 1
     /\ messages[1].Role = "user"
     /\ IsString(messages[1].Content)
  THEN [kind |-> "string", text |-> messages[1].Content.text, items |-> <<>>]
  ELSE [kind |-> "items", text |-> "",
        items |-> [k \in 1..Len(messages) |->
                     [Role |-> messages[k].Role,
                      Content |-> IF IsString(messages[k].Content)
                                    THEN messages[k].Content.text ELSE ""]]]

(* The `instructions` of the request: the first system message's text.     *)
ResponsesInstructions(messages) ==
  LET systems == {i \in 1..Len(messages) : messages[i].Role = "system"}
      first == CHOOSE i \in systems : \A j \in systems : i <= j
  IN IF systems = {} THEN ""
     ELSE IF IsString(messages[first].Content)
     THEN messages[first].Content.text
     ELSE ""

RECURSIVE Conversations(_)
Conversations(n) ==
  IF n = 0 THEN {<<>>}
  ELSE LET shorter == Conversations(n - 1)
       IN shorter
          \cup {Append(ms, Message(role, StringContent(role \o " text")))
                : ms \in shorter, role \in {"user", "assistant"}}

InputBuilders(n) ==
  [system : {"", "You are terse."},
   jsonMode : BOOLEAN,
   fileContext : {<<>>, <<"--- a.txt ---\nalpha">>},
   messages : Conversations(n),
   images : {<<>>, <<"https://example.com/i.png">>},
   documents : {<<>>}]

InitInput ==
  /\ NoOrch
  /\ Debug = FALSE
  /\ NoCallers
  /\ stream = NoStream
  /\ pair = NoPair
  /\ resolved = NoResolve
  /\ decoded = NoDecode
  /\ wire \in {[pc |-> "build", b |-> bb, messages |-> <<>>,
                input |-> ResponsesInput(<<>>), instructions |-> ""]
               : bb \in InputBuilders(MaxMessages)}

(* SendWithMeta fills the request's Messages from buildMessages.           *)
BuildMessages ==
  /\ wire.pc = "build"
  /\ wire' = [wire EXCEPT !.pc = "send", !.messages = buildMessages(wire.b)]
  /\ UNCHANGED <<orchVars, Debug, concVars, resolved, decoded, stream, pair>>

(* sendResponses up to the responsesRequest literal.                       *)
BuildInput ==
  /\ wire.pc = "send"
  /\ wire' = [wire EXCEPT !.pc = "sent",
                          !.input = ResponsesInput(wire.messages),
                          !.instructions = ResponsesInstructions(wire.messages)]
  /\ UNCHANGED <<orchVars, Debug, concVars, resolved, decoded, stream, pair>>

NextInput == BuildMessages \/ BuildInput

SpecInput == InitInput /\ [][NextInput]_vars

(* ---------------------------- Builder.Clone ---------------------------- *)
(* The builder's reference-typed fields live in a heap: a slice is a       *)
(* backing array's address with a length and a capacity, a map and a      *)
(* pointer are an address. An address names the field it was allocated    *)
(* for and counts the allocations made for that field.                     *)
NilAddr == <<"nil", 0>>
ZeroBase == <<"zerobase", 0>>
NilSlice == [arr |-> NilAddr, len |-> 0, cap |-> 0]
EmptySlice == [arr |-> ZeroBase, len |-> 0, cap |-> 0]

Fresh(h, field) ==
  <<field, 1 + Cardinality({a \in DOMAIN h : a[1] = field})>>

Zeros(n) == [k \in 1..n |-> ""]

(* s[:len(s)] read through the heap.                                       *)
Contents(h, s) == IF s.len = 0 THEN <<>> ELSE SubSeq(h[s.arr], 1, s.len)

(* *p, with the nil pointer reading as no value.                           *)
Deref(h, a) == IF a = NilAddr THEN Nil ELSE h[a]

(* The entries of a map, none for the nil map.                             *)
Entries(h, a) ==
  IF a = NilAddr THEN {} ELSE {<<k, h[a][k]>> : k \in DOMAIN h[a]}

(* append(s, x): in place while the capacity lasts, else into a new array  *)
(* that is at least one element longer; how much longer is the runtime's   *)
(* choice. The outcomes are the heaps and slices append can give.          *)
AppendSlice(h, field, s, x) ==
  IF s.len < s.cap
  THEN {[heap |-> [h EXCEPT ![s.arr][s.len + 1] = x],
         slice |-> [s EXCEPT !.len = s.len + 1]]}
  ELSE {[heap |-> h @@ (Fresh(h, field) :>
                          (Contents(h, s) \o <<x>> \o Zeros(n - s.len - 1))),
         slice |-> [arr |-> Fresh(h, field), len |-> s.len + 1, cap |-> n]]
        : n \in {s.len + 1, s.len + 2}}

(* make([]T, len(s)) followed by copy(new, s).                             *)
CopySlice(h, field, s) ==
  IF s.len = 0 THEN EmptySlice
  ELSE [arr |-> Fresh(h, field), len |-> s.len, cap |-> s.len]

CopyArray(h, field, s) ==
  IF s.len = 0 THEN <<>>
  ELSE Fresh(h, field) :> Contents(h, s)

(* &Builder{model: model, messages: []Message{}, vars: Vars{},             *)
(* fileContext: []string{}, maxRetries: 0}.                                *)
NewBuilder(model) ==
  [model |-> model, system |-> "", messages |-> EmptySlice,
   vars |-> <<"vars", 1>>, fileContext |-> EmptySlice, debug |-> FALSE,
   maxRetries |-> 0, fallbacks |-> NilSlice, jsonMode |-> FALSE,
   temperature |-> NilAddr, thinking |-> "", tools |-> NilSlice,
   toolHandlers |-> NilAddr, builtinTools |-> NilSlice,
   images |-> NilSlice, documents |-> NilSlice, schema |-> Nil,
   ctx |-> Nil, client |-> NilAddr, retryConfig |-> NilAddr,
   validators |-> NilSlice]

(* The heap after New: the builder's vars map, and a Client the caller     *)
(* holds for WithClient.                                                   *)
NewHeap == (<<"vars", 1>> :> <<>>) @@ (<<"client", 1>> :> ProviderOpenAI)

(* A builder whose function tools, images, documents, schema, context,     *)
(* retry configuration and validators have been set.                       *)
Configured(bb) ==
  [bb EXCEPT !.tools = [arr |-> <<"tools", 1>>, len |-> 1, cap |-> 1],
             !.toolHandlers = <<"toolHandlers", 1>>,
             !.images = [arr |-> <<"images", 1>>, len |-> 1, cap |-> 1],
             !.documents = [arr |-> <<"documents", 1>>, len |-> 1, cap |-> 1],
             !.schema = "schemaT",
             !.ctx = "ctx1",
             !.retryConfig = <<"retryConfig", 1>>,
             !.validators = [arr |-> <<"validators", 1>>, len |-> 1, cap |-> 1]]

ConfiguredHeap(h) ==
  h @@ (<<"tools", 1>> :> <<"tool1">>)
    @@ (<<"toolHandlers", 1>> :> ("tool1" :> "handler1"))
    @@ (<<"images", 1>> :> <<"img1">>)
    @@ (<<"documents", 1>> :> <<"doc1">>)
    @@ (<<"retryConfig", 1>> :> "cfg1")
    @@ (<<"validators", 1>> :> <<"validator1">>)

(* The builder Clone returns and the heap it leaves.                       *)
CloneBuilder(h, bb) ==
  [model |-> bb.model,
   system |-> bb.system,
   messages |-> CopySlice(h, "messages", bb.messages),
   vars |-> Fresh(h, "vars"),
   fileContext |-> CopySlice(h, "fileContext", bb.fileContext),
   debug |-> bb.debug,
   maxRetries |-> bb.maxRetries,
   fallbacks |-> CopySlice(h, "fallbacks", bb.fallbacks),
   jsonMode |-> bb.jsonMode,
   temperature |-> IF bb.temperature # NilAddr
                     THEN Fresh(h, "temperature") ELSE NilAddr,
   thinking |-> bb.thinking,
   tools |-> CopySlice(h, "tools", bb.tools),
   toolHandlers |-> IF bb.toolHandlers # NilAddr
                      THEN Fresh(h, "toolHandlers") ELSE NilAddr,
   builtinTools |-> CopySlice(h, "builtinTools", bb.builtinTools),
   images |-> CopySlice(h, "images", bb.images),
   documents |-> CopySlice(h, "documents", bb.documents),
   schema |-> Nil,
   ctx |-> bb.ctx,
   client |-> bb.client,
   retryConfig |-> bb.retryConfig,
   validators |-> CopySlice(h, "validators", bb.validators)]

SliceFields ==
  {"messages", "fileContext", "fallbacks", "tools", "builtinTools",
   "images", "documents", "validators"}

RECURSIVE CopyArrays(_, _, _)
CopyArrays(h, bb, fields) ==
  IF fields = {} THEN <<>>
  ELSE LET f == CHOOSE g \in fields : TRUE
       IN CopyArray(h, f, bb[f]) @@ CopyArrays(h, bb, fields \ {f})

CloneHeap(h, bb) ==
  h @@ CopyArrays(h, bb, SliceFields)
    @@ (Fresh(h, "vars") :> h[bb.vars])
    @@ (IF bb.temperature # NilAddr
          THEN Fresh(h, "temperature") :> h[bb.temperature] ELSE <<>>)
    @@ (IF bb.toolHandlers # NilAddr
          THEN Fresh(h, "toolHandlers") :> h[bb.toolHandlers] ELSE <<>>)

(* What a builder is configured with: every field, the reference-typed     *)
(* ones read through the heap; client, context and retry configuration    *)
(* are compared as the references they are, the retry configuration also  *)
(* by what it points to.                                                   *)
View(p, r) ==
  LET bb == p[r] h == p.heap IN
  [model |-> bb.model, system |-> bb.system,
   messages |-> Contents(h, bb.messages),
   vars |-> Entries(h, bb.vars),
   fileContext |-> Contents(h, bb.fileContext),
   debug |-> bb.debug, maxRetries |-> bb.maxRetries,
   fallbacks |-> Contents(h, bb.fallbacks),
   jsonMode |-> bb.jsonMode,
   temperature |-> Deref(h, bb.temperature),
   thinking |-> bb.thinking,
   tools |-> Contents(h, bb.tools),
   toolHandlers |-> Entries(h, bb.toolHandlers),
   builtinTools |-> Contents(h, bb.builtinTools),
   images |-> Contents(h, bb.images),
   documents |-> Contents(h, bb.documents),
   schema |-> bb.schema, ctx |-> bb.ctx, client |-> bb.client,
   retryConfig |-> <<bb.retryConfig, Deref(h, bb.retryConfig)>>,
   validators |-> Contents(h, bb.validators)]

Receivers == {"b", "c"}
Other(r) == IF r = "b" THEN "c" ELSE "b"

(* The caller's program: New, some builder calls, Clone, and builder calls *)
(* on the original and on the clone. `last` is the receiver of the last    *)
(* call and `before` what the other builder held when that call was made.  *)
NewPair(model, configured) ==
  [pc |-> "building",
   b |-> IF configured THEN Configured(NewBuilder(model))
         ELSE NewBuilder(model),
   c |-> Nil,
   heap |-> IF configured THEN ConfiguredHeap(NewHeap) ELSE NewHeap,
   calls |-> 0, last |-> "new", before |-> Nil]

InitClone ==
  /\ NoOrch
  /\ Debug = FALSE
  /\ NoCallers
  /\ resolved = NoResolve
  /\ wire = NoWire
  /\ decoded = NoDecode
  /\ stream = NoStream
  /\ pair \in {NewPair("m1", configured) : configured \in BOOLEAN}

(* A builder call on r may be made: on the clone once there is one.        *)
Calling(r) ==
  /\ pair.pc # "none"
  /\ pair.calls < MaxCalls
  /\ r = "c" => pair.pc = "cloned"

(* The call on r returns, leaving one of the pairs in `outcomes`.          *)
Called(r, outcomes) ==
  /\ \E q \in outcomes :
       pair' = [q EXCEPT !.calls = pair.calls + 1,
                         !.last = r,
                         !.before = IF pair.pc = "cloned"
                                      THEN View(pair, Other(r)) ELSE Nil]
  /\ UNCHANGED <<orchVars, Debug, concVars, resolved, wire, decoded, stream>>

(* The pairs an append to a slice field of r can leave.                    *)
Appended(r, field, x) ==
  {[pair EXCEPT ![r][field] = o.slice, !.heap = o.heap]
   : o \in AppendSlice(pair.heap, field, pair[r][field], x)}

(* The pair after r's pointer field is set to a newly allocated value.     *)
Allocated(r, field, value) ==
  [pair EXCEPT ![r][field] = Fresh(pair.heap, field),
               !.heap = pair.heap @@ (Fresh(pair.heap, field) :> value)]

(* m[key] = value on the map a field of r refers to.                       *)
Stored(r, field, key, value) ==
  LET a == pair[r][field]
      m == pair.heap[a]
  IN [pair EXCEPT !.heap[a] =
        [k \in DOMAIN m \cup {key} |-> IF k = key THEN value ELSE m[k]]]

System ==
  \E r \in Receivers :
    Calling(r) /\ Called(r, {[pair EXCEPT ![r].system = "prompt"]})

User ==
  \E r \in Receivers :
    Calling(r)
    /\ Called(r, Appended(r, "messages", [Role |-> "user", Content |-> "u"]))

Assistant ==
  \E r \in Receivers :
    Calling(r)
    /\ Called(r, Appended(r, "messages",
                          [Role |-> "assistant", Content |-> "a"]))

ContextString ==
  \E r \in Receivers :
    Calling(r) /\ Called(r, Appended(r, "fileContext", "--- name ---\ntext"))

With ==
  \E r \in Receivers, value \in {"v1", "v2"} :
    Calling(r) /\ Called(r, {Stored(r, "vars", "k", value)})

Var ==
  \E r \in Receivers :
    Calling(r) /\ Called(r, {Stored(r, "vars", "key", "value")})

BuilderRetry ==
  \E r \in Receivers :
    Calling(r) /\ Called(r, {[pair EXCEPT ![r].maxRetries = 2]})

(* b.fallbacks = models: the variadic argument's own array.                *)
BuilderFallback ==
  \E r \in Receivers :
    Calling(r)
    /\ Called(r, {[Allocated(r, "fallbacks", <<"m2">>) EXCEPT
                     ![r].fallbacks = [arr |-> Fresh(pair.heap, "fallbacks"),
                                       len |-> 1, cap |-> 1]]})

JSON ==
  \E r \in Receivers :
    Calling(r) /\ Called(r, {[pair EXCEPT ![r].jsonMode = TRUE]})

Temperature ==
  \E r \in Receivers, temp \in {"0.2", "0.7"} :
    Calling(r) /\ Called(r, {Allocated(r, "temperature", temp)})

Thinking ==
  \E r \in Receivers :
    Calling(r) /\ Called(r, {[pair EXCEPT ![r].thinking = "high"]})

BuilderDebug ==
  \E r \in Receivers :
    Calling(r) /\ Called(r, {[pair EXCEPT ![r].debug = TRUE]})

Model ==
  \E r \in Receivers :
    Calling(r) /\ Called(r, {[pair EXCEPT ![r].model = "m2"]})

WithClient ==
  \E r \in Receivers :
    Calling(r) /\ Called(r, {[pair EXCEPT ![r].client = <<"client", 1>>]})

Provider ==
  \E r \in Receivers :
    Calling(r) /\ Called(r, {Allocated(r, "client", ProviderAnthropic)})

WebSearch ==
  \E r \in Receivers :
    Calling(r)
    /\ Called(r, Appended(r, "builtinTools", [Type |-> "web_search"]))

Clone ==
  /\ pair.pc = "building"
  /\ pair' = [pair EXCEPT !.pc = "cloned",
                          !.c = CloneBuilder(pair.heap, pair.b),
                          !.heap = CloneHeap(pair.heap, pair.b),
                          !.last = "clone"]
  /\ UNCHANGED <<orchVars, Debug, concVars, resolved, wire, decoded, stream>>

NextClone ==
  \/ System \/ User \/ Assistant \/ ContextString \/ With \/ Var
  \/ BuilderRetry \/ BuilderFallback \/ JSON \/ Temperature \/ Thinking
  \/ BuilderDebug \/ Model \/ WithClient \/ Provider \/ WebSearch \/ Clone

SpecClone == InitClone /\ [][NextClone]_vars

(* ============================== claims ================================= *)
(* The attempt budget one model gets under the builder's discipline.       *)
Budget(bb) ==
  CASE Discipline(bb) = "smart" -> bb.retryConfig
    [] Discipline(bb) = "legacy" -> bb.maxRetries + 1
    [] OTHER -> 1

(* Number of Send calls made on chain position j.                          *)
SendsOn(c, j) == Cardinality({k \in 1..Len(c.sends) : c.sends[k].i = j})

Returned == call.pc = "done"
ChainExhausted == Returned /\ call.i > Len(call.models)
ReturnedOk == Returned /\ call.i <= Len(call.models) /\ call.meta.Error = NoErr
Rejected == Returned /\ call.meta.Error.kind = "validation"

(* Under the smart policy the budget is only used up by retryable         *)
(* failures on a live context.                                             *)
BudgetApplies ==
  Discipline(b) = "smart" => (~ctxDone /\ call.backendAt = 0)

C3_NoSendAfterCancel ==
  \A k \in 2..Len(call.sends) : ~call.sends[k].ctxAtGate

(* C4: a validator rejection returns at once with the validation error;    *)
(* it is never treated as a failed attempt and no later model is tried.    *)
C4_ValidationTerminal ==
  /\ call.err.kind # "validation" /\ call.lastErr.kind # "validation"
  /\ Rejected =>
       /\ call.meta.Error.by = Len(call.sends)
       /\ call.oks = {Len(call.sends)}
       /\ call.meta.Model = call.sends[Len(call.sends)].model

C4_Witness ==
  /\ Rejected
  /\ call.i < Len(call.models)
  /\ call.meta.Error.by = Len(call.sends)

(* C5: model[0] uses up its budget, model[1] succeeds at its first         *)
(* attempt: success, Model = model[1], and Retries counts only the         *)
(* retries made on model[0].                                               *)
C5_RetriesOfFailedModelOnly ==
  (/\ ReturnedOk
   /\ call.i = 2
   /\ SendsOn(call, 1) = Budget(b)
   /\ SendsOn(call, 2) = 1) =>
    /\ call.meta.Error = NoErr
    /\ call.meta.Model = AttemptChain(b)[2]
    /\ call.meta.Retries = SendsOn(call, 1) - 1

C5_Witness ==
  /\ ReturnedOk
  /\ call.i = 2 /\ SendsOn(call, 1) = Budget(b) /\ SendsOn(call, 2) = 1
  /\ Budget(b) = 2
  /\ call.meta.Retries = 1

(* C6: after a backend-reported error from a model, no further Send is     *)
(* issued to that model.                                                   *)
C6_BackendErrorNotRetried ==
  [][Len(call'.sends) > Len(call.sends) =>
       call'.sends[Len(call'.sends)].i # call.backendAt]_vars

(* C7: every Send is started right after exactly one pass through the      *)
(* rate-limit gate made since the previous Send.                           *)
C7_GateBeforeEverySend ==
  /\ \A k \in 1..Len(call.sends) : call.sends[k].gates = 1
  /\ call.gates = (IF call.pc = "send" THEN 1 ELSE 0)
  /\ gate = Len(call.sends) + call.gates

C7_Witness ==
  /\ call.pc = "inflight"
  /\ Len(call.sends) = 4
  /\ call.sends[3].i = 2 /\ call.sends[4].i = 2
  /\ gate = 4

(* C8: without a retry policy every model that was tried and left behind   *)
(* got exactly 1 attempt; under Retry(maxRetries) every model gets at most *)
(* maxRetries+1 attempts, and exactly that many when it was left behind    *)
(* (all of them failed), whatever the earlier models used.                 *)
C8_IndependentBudget ==
  Discipline(b) \in {"none", "legacy"} =>
    \A j \in 1..Len(call.models) :
      /\ SendsOn(call, j) <= b.maxRetries + 1
      /\ j < call.i => SendsOn(call, j) = b.maxRetries + 1
      /\ (j = call.i /\ Returned) => SendsOn(call, j) >= 1
      /\ Discipline(b) = "none" => SendsOn(call, j) <= 1

C8_Witness ==
  /\ Discipline(b) = "legacy"
  /\ call.i = 3 /\ call.pc = "inflight"
  /\ SendsOn(call, 1) = 2 /\ SendsOn(call, 2) = 2 /\ SendsOn(call, 3) = 1

(* C9: the chain is the primary model followed by the fallbacks in the     *)
(* given order; Sends follow the chain order without skipping a model, one *)
(* at a time, only while no earlier Send has succeeded, and the attempts   *)
(* on one model are numbered in strictly increasing order.                 *)
C9_ChainOrder ==
  /\ call.pc # "start" =>
       /\ call.models[1] = b.model
       /\ Len(call.models) = 1 + Len(b.fallbacks)
       /\ \A j \in 1..Len(b.fallbacks) : call.models[j + 1] = b.fallbacks[j]
  /\ \A k \in 1..Len(call.sends) :
       /\ call.sends[k].model = (<<b.model>> \o b.fallbacks)[call.sends[k].i]
       /\ call.sends[k].inflight = 0
       /\ k = 1 => call.sends[k].i = 1
       /\ k > 1 =>
            /\ call.sends[k].i \in {call.sends[k-1].i, call.sends[k-1].i + 1}
            /\ (k - 1) \notin call.oks
            /\ (call.sends[k].i = call.sends[k-1].i) =>
                 /\ Discipline(b) # "none"
                 /\ Discipline(b) = "legacy" =>
                      call.sends[k].attempt = call.sends[k-1].attempt + 1
                 /\ Discipline(b) = "smart" =>
                      call.sends[k].retries = call.sends[k-1].retries + 1
  /\ call.inflight \in {0, 1}
  /\ call.inflight = 1 <=> call.pc = "inflight"

C9_Witness ==
  /\ ChainExhausted
  /\ b.model = "m2" /\ b.fallbacks = <<"m1", "m2">>
  /\ Len(call.sends) = 6
  /\ call.sends[1].model = "m2" /\ call.sends[3].model = "m1"
  /\ call.sends[5].model = "m2"

(* What a caller and the provider can observe of a call: everything but    *)
(* the warnings.                                                           *)
Observable(c) == [c EXCEPT !.warnings = <<>>]

(* C10: against any capability set the call makes the same Sends with the  *)
(* same requests and returns the same result as against a provider that    *)
(* supports everything; every request carries all the requested features.  *)
C10_CapabilityMismatchHarmless ==
  /\ Observable(call) = Observable(twin)
  /\ twin.warnings = <<>>
  /\ \A k \in 1..Len(call.sends) :
       call.sends[k].req = NewProviderRequest(b, call.sends[k].model)

C10_Witness ==
  /\ ReturnedOk
  /\ call.warnings # <<>>
  /\ twin.warnings = <<>>
  /\ Len(call.sends) = 1
  /\ call.sends[1].req.BuiltinTools # <<>>

(* C11: concurrent SendWithMeta calls do not disturb each other through    *)
(* the process-wide Debug flag: once every call has returned, Debug has    *)
(* the value it had before the first call started, and a call that did not *)
(* ask for debug never runs its body with Debug switched on by another.    *)
AllReturned == \A p \in DOMAIN callers : callers[p].pc = "done"

C11_DebugNotShared ==
  /\ (callers # <<>> /\ AllReturned) => Debug = startDebug
  /\ \A p \in DOMAIN callers :
       (~callers[p].debug /\ ~startDebug) => ~callers[p].ranDebug

(* C12: for every backend and every model with an entry in that backend's  *)
(* table, resolveModel returns exactly the table value; no prefix is       *)
(* stripped, no namespace inferred and no dot turned into a dash.          *)
Resolved == resolved.pc = "done"

C12_TableWins ==
  (Resolved /\ HasMapping(resolved.providerType, resolved.model)) =>
    resolved.id = modelMappings[resolved.providerType][resolved.model]

(* A table entry that the heuristics would not have produced.              *)
C12_Witness ==
  /\ Resolved
  /\ HasMapping(resolved.providerType, resolved.model)
  /\ resolved.id = modelMappings[resolved.providerType][resolved.model]
  /\ resolved.id # normalizeRaw(resolved.providerType, resolved.model)

(* C13: Anthropic backend, model without a table entry: with the optional  *)
(* "anthropic/" prefix and any ":suffix" cut off, each listed shorthand    *)
(* resolves to its dated snapshot, and every other string comes back with  *)
(* each '.' that is directly followed by a digit replaced by '-' and every *)
(* other character unchanged.                                              *)
ListedShorthands ==
  {"claude-sonnet-4.5", "claude-haiku-4.5", "claude-opus-4.5",
   "claude-opus-4.1", "claude-opus-4", "claude-sonnet-4",
   "claude-3.7-sonnet", "claude-3.5-haiku", "claude-3-haiku",
   "claude-3-opus", "claude-3-sonnet"}

DotBeforeDigit(s, i) ==
  ByteAt(s, i) = "." /\ i < Len(s) /\ ByteAt(s, i + 1) \in Digits

DotsDashed(s, out) ==
  /\ Len(out) = Len(s)
  /\ \A i \in 1..Len(s) :
       ByteAt(out, i) = IF DotBeforeDigit(s, i) THEN "-" ELSE ByteAt(s, i)

AnthropicUnmapped ==
  /\ Resolved
  /\ resolved.providerType = ProviderAnthropic
  /\ ~HasMapping(ProviderAnthropic, resolved.model)

OpenAIFamily(id) ==
  \/ \E prefix \in {"gpt-", "chatgpt-", "sora-", "whisper-", "tts-",
                     "text-embedding-"} :
       Len(id) >= Len(prefix) /\ SubSeq(id, 1, Len(prefix)) = prefix
  \/ Len(id) >= 2 /\ SubSeq(id, 1, 1) = "o" /\ SubSeq(id, 2, 2) \in Digits

HasSlash(id) == \E i \in 1..Len(id) : SubSeq(id, i, i) = "/"

OpenRouterUnmapped ==
  /\ Resolved
  /\ resolved.providerType = ProviderOpenRouter
  /\ ~HasMapping(ProviderOpenRouter, resolved.model)

C14_OpenRouterNamespace ==
  OpenRouterUnmapped =>
    resolved.id = IF ~HasSlash(resolved.model) /\ OpenAIFamily(resolved.model)
                  THEN "openai/" \o resolved.model
                  ELSE resolved.model

(* A bare id that starts with 'o' without being of the o-series.           *)
C14_Witness ==
  /\ OpenRouterUnmapped
  /\ ~HasSlash(resolved.model)
  /\ Len(resolved.model) >= 2
  /\ SubSeq(resolved.model, 1, 1) = "o"
  /\ ~OpenAIFamily(resolved.model)
  /\ resolved.id = resolved.model

(* C15: for a model without a table entry resolveModel only ever removes   *)
(* the backend's own vendor prefix: a leading "openai/" for OpenAI and     *)
(* Azure, a leading "google/" for Google; in every other case the raw      *)
(* string is returned unchanged.                                           *)
OwnPrefix(providerType) ==
  CASE providerType \in {ProviderOpenAI, ProviderAzure} -> "openai/"
    [] providerType = ProviderGoogle -> "google/"
    [] OTHER -> ""

OwnPrefixRemoved ==
  LET own == OwnPrefix(resolved.providerType)
      m == resolved.model
  IN resolved.id =
       IF own # "" /\ Len(m) >= Len(own) /\ SubSeq(m, 1, Len(own)) = own
       THEN SubSeq(m, Len(own) + 1, Len(m))
       ELSE m

(* As stated: for every backend.                                           *)
C15_OnlyOwnPrefixRemoved ==
  (Resolved /\ ~HasMapping(resolved.providerType, resolved.model)) =>
    OwnPrefixRemoved

(* C15, amended: for the backends other than OpenRouter and Anthropic      *)
(* (which have the rules of their own), a model without a table entry      *)
(* loses a leading "openai/" on OpenAI and Azure and a leading "google/"   *)
(* on Google, and in every other case is returned unchanged.               *)
C15_OnlyOwnPrefixRemovedElsewhere ==
  (/\ Resolved
   /\ ~HasMapping(resolved.providerType, resolved.model)
   /\ resolved.providerType \notin {ProviderOpenRouter, ProviderAnthropic})
    => OwnPrefixRemoved

(* Azure is handed an "openai/..." id that is in no table.                 *)
C15_Witness ==
  /\ Resolved
  /\ resolved.providerType = ProviderAzure
  /\ ~HasMapping(ProviderAzure, resolved.model)
  /\ HasPrefix(resolved.model, "openai/")
  /\ resolved.id # resolved.model
  /\ "openai/" \o resolved.id = resolved.model

(* C16: for a BuiltinTool of a known type, whatever its other fields hold, *)
(* the wire object has exactly the keys "type" plus the wire keys of the   *)
(* fields of that type that are non-empty / non-zero; fields of another    *)
(* type never appear, and shell and apply_patch carry "type" only.         *)
Built == wire.pc = "built"

ToolIndices == IF Built THEN 1..Len(wire.req.BuiltinTools) ELSE {}

FieldsOfTag(t) == {f \in FieldNames : FieldTag[f] = t}

NonZero(bt, f) == bt[f] # ZeroValue(FieldKind[f])

Positive(bt, f) ==
  IF FieldKind[f] = "int" THEN bt[f] > 0 ELSE NonZero(bt, f)

KnownToolAt(k) ==
  /\ Built
  /\ k \in 1..Len(wire.req.BuiltinTools)
  /\ wire.req.BuiltinTools[k].Type \in BuiltinTypes

(* As stated: every non-zero field of the type is on the wire.             *)
C16_ExactKeySet ==
  \A k \in ToolIndices :
    KnownToolAt(k) =>
      LET bt == wire.req.BuiltinTools[k]
      IN DOMAIN wire.tools[k] =
           {"type"} \cup {WireKey[f] : f \in {g \in FieldsOfTag(bt.Type) :
                                                NonZero(bt, g)}}

(* C16, amended: the keys are "type" plus the wire keys of the fields of   *)
(* the type that are non-empty (string, slice), non-nil (pointer,          *)
(* interface) or greater than zero (int): a negative int field is left     *)
(* out like a zero one.                                                    *)
C16_ExactKeySetPositive ==
  \A k \in ToolIndices :
    KnownToolAt(k) =>
      LET bt == wire.req.BuiltinTools[k]
      IN DOMAIN wire.tools[k] =
           {"type"} \cup {WireKey[f] : f \in {g \in FieldsOfTag(bt.Type) :
                                                Positive(bt, g)}}

(* A file_search tool with every field of every type set, its ints         *)
(* negative: the vector stores and the filter go out, nothing else.        *)
C16_Witness ==
  /\ KnownToolAt(1)
  /\ LET bt == wire.req.BuiltinTools[1]
     IN /\ bt.Type = "file_search"
        /\ \A f \in FieldNames : NonZero(bt, f)
        /\ bt.MaxNumResults < 0
        /\ DOMAIN wire.tools[1] = {"type", "vector_store_ids", "filters"}

(* C17: a BuiltinTool whose Type is none of the eight known ones fails     *)
(* loudly: an error is signalled and no wire object for the tool is put    *)
(* into the request.                                                       *)
C17_UnknownTagFailsLoudly ==
  \A k \in ToolIndices :
    (/\ Built
     /\ k \in 1..Len(wire.req.BuiltinTools)
     /\ wire.req.BuiltinTools[k].Type \notin BuiltinTypes)
    => /\ wire.err # NoErr
       /\ \A j \in 1..Len(wire.tools) :
            wire.tools[j].type # wire.req.BuiltinTools[k].Type

(* C18: a malformed output item never aborts decoding: for a Responses     *)
(* body whose output holds one well-formed message item and one malformed  *)
(* tool-call item (a field of the wrong JSON type), parseResponsesResponse *)
(* returns no error, the text is the message's text, and the malformed     *)
(* item is absent from the tool calls.                                     *)
Decoded(api) == decoded.pc = "done" /\ decoded.api = api

ToolCallItemTypes == ItemTypes \ {"message"}

WellFormedMessage(item) ==
  /\ item.type = "message"
  /\ item.arguments # "object"
  /\ Len(item.content) = 1
  /\ item.content[1].text # ""

MalformedToolCall(item) ==
  item.type \in ToolCallItemTypes /\ item.arguments = "object"

C18_MalformedItemSkipped ==
  (/\ Decoded("responses")
   /\ decoded.body.valid
   /\ ~decoded.body.error.present
   /\ Len(decoded.body.output) = 2)
  => \A k \in 1..2 :
       LET msg == decoded.body.output[k]
           bad == decoded.body.output[3 - k]
       IN (WellFormedMessage(msg) /\ MalformedToolCall(bad)) =>
            /\ decoded.err = NoDecodeError
            /\ ~decoded.resp.nil
            /\ decoded.resp.Content = msg.content[1].text
            /\ \A j \in 1..Len(decoded.resp.ToolCalls) :
                 decoded.resp.ToolCalls[j].ID # bad.id

(* C19: whenever the body carries a top-level error object, parseResponse  *)
(* and parseResponsesResponse return no response and the one ProviderError *)
(* that carries the object's code and message, whatever else is in the     *)
(* body.                                                                   *)
C19_ErrorObjectWins ==
  (/\ decoded.pc = "done"
   /\ decoded.body.valid
   /\ decoded.body.error.present
   /\ decoded.body.error.codeType = "string")
  => /\ decoded.resp = NoResponse
     /\ decoded.err = DecodeError("backend", decoded.body.error.code,
                                  decoded.body.error.message)

(* C20: the "action" payload is decoded by the item's own type: a          *)
(* computer_call only ever yields a ComputerAction, a shell_call only ever *)
(* a ShellAction; when the payload does not fit the shape the type         *)
(* selects, the action is left unset, the item is still returned with its  *)
(* id, type, status and call_id, and the other items are decoded without   *)
(* error.                                                                  *)
FitsShape(raw, fields) ==
  raw.t = "object" /\ \A m \in raw.members : <<m[1], m[2]>> \in fields

ReturnedFor(item, tc) ==
  /\ tc.ID = item.id
  /\ tc.Type = item.type
  /\ tc.Status = item.status
  /\ tc.CallID = item.call_id

ToolCallItems(output) ==
  {k \in 1..Len(output) : output[k].type \in ToolCallItemTypes}

C20_ActionByDiscriminator ==
  (/\ Decoded("responses")
   /\ decoded.body.valid
   /\ ~decoded.body.error.present
   /\ \A k \in 1..Len(decoded.body.output) :
        decoded.body.output[k].arguments # "object")
  => /\ decoded.err = NoDecodeError
     /\ Len(decoded.resp.ToolCalls) =
          Cardinality(ToolCallItems(decoded.body.output))
     /\ \A k \in 1..Len(decoded.body.output) :
          LET item == decoded.body.output[k]
          IN item.type \in {"computer_call", "shell_call"} =>
               \E j \in 1..Len(decoded.resp.ToolCalls) :
                 LET tc == decoded.resp.ToolCalls[j]
                 IN /\ ReturnedFor(item, tc)
                    /\ item.type = "computer_call" =>
                         /\ tc.ShellAction.nil
                         /\ tc.Action.nil =
                              ~FitsShape(item.action, ComputerActionFields)
                    /\ item.type = "shell_call" =>
                         /\ tc.Action.nil
                         /\ tc.ShellAction.nil =
                              ~FitsShape(item.action, ShellActionFields)

(* C21: the final text of a decoded Responses body is the concatenation, *)
(* in order, of the text parts of its message items whenever that          *)
(* concatenation is non-empty; output_text is used only when the message   *)
(* items produced no text.                                                 *)
TextPart(c) == c.type = "output_text" \/ c.type = "text"

(* Places <<k, j>> of the text parts of the message items, <<k, j, a>> of  *)
(* their annotations, and the order of appearance among places.            *)
TextPlaces(output) ==
  UNION {{<<k, j>> : j \in {i \in 1..Len(output[k].content) :
                              TextPart(output[k].content[i])}} :
           k \in {i \in 1..Len(output) : output[i].type = "message"}}

Before(p, q) ==
  \E n \in 1..Len(p) : p[n] < q[n] /\ \A m \in 1..n - 1 : p[m] = q[m]

Rank(S, p) == 1 + Cardinality({q \in S : Before(q, p)})

PlaceOfRank(S, r) == CHOOSE p \in S : Rank(S, p) = r

RECURSIVE Concat(_)
Concat(texts) ==
  IF texts = <<>> THEN "" ELSE Head(texts) \o Concat(Tail(texts))

MessageText(output) ==
  LET S == TextPlaces(output)
  IN Concat([r \in 1..Cardinality(S) |->
               LET p == PlaceOfRank(S, r)
               IN output[p[1]].content[p[2]].text])

DecodedOk == Decoded("responses") /\ decoded.err = NoDecodeError

C21_FinalText ==
  DecodedOk =>
    LET t == MessageText(decoded.body.output)
    IN /\ t # "" => decoded.resp.Content = t
       /\ decoded.resp.Content # t =>
            t = "" /\ decoded.resp.Content = decoded.body.output_text

(* Two message items with text, each of two text parts, in a body that     *)
(* also carries output_text.                                               *)
C21_Witness ==
  /\ DecodedOk
  /\ decoded.body.output_text # ""
  /\ Len(decoded.body.output) = 2
  /\ \A k \in 1..2 :
       /\ decoded.body.output[k].type = "message"
       /\ Len(decoded.body.output[k].content) = 2
       /\ \A j \in 1..2 :
            /\ TextPart(decoded.body.output[k].content[j])
            /\ decoded.body.output[k].content[j].text # ""
  /\ decoded.resp.Content # decoded.body.output_text

(* C22: the citation list is flat and order-preserving: one Citation per   *)
(* annotation of every text part of every message item, in the order of    *)
(* appearance (item, then content part, then annotation), none dropped,    *)
(* duplicated or reordered.                                                *)
AnnotationPlaces(output) ==
  UNION {{<<p[1], p[2], a>> :
            a \in 1..Len(output[p[1]].content[p[2]].annotations)} :
           p \in TextPlaces(output)}

C22_CitationsInOrder ==
  DecodedOk =>
    LET S == AnnotationPlaces(decoded.body.output)
    IN /\ Len(decoded.resp.Citations) = Cardinality(S)
       /\ \A p \in S :
            decoded.resp.Citations[Rank(S, p)] =
              Citation(decoded.body.output[p[1]].content[p[2]].annotations[p[3]])

(* Two message items, the first with two annotated text parts of which one *)
(* has two annotations.                                                    *)
C22_Witness ==
  /\ DecodedOk
  /\ Len(decoded.body.output) = 2
  /\ \A k \in 1..2 : decoded.body.output[k].type = "message"
  /\ Len(decoded.body.output[1].content) = 2
  /\ \A j \in 1..2 : TextPart(decoded.body.output[1].content[j])
  /\ Len(decoded.body.output[1].content[1].annotations) = 2
  /\ Len(decoded.body.output[1].content[2].annotations) = 1
  /\ Len(decoded.body.output[2].content) > 0
  /\ Len(decoded.resp.Citations) >= 4

(* C23: SendStream invokes the callback synchronously, once per received *)
(* content chunk and in the order of receipt: callback k has returned      *)
(* before the next line is read, and the Content of the returned response  *)
(* is the concatenation of the callback arguments in invocation order.  A  *)
(* content chunk is a data line whose JSON has a choice; it is received    *)
(* once its line, newline included, has arrived before the first "[DONE]". *)
RECURSIVE ContentsUpTo(_, _)
ContentsUpTo(lines, n) ==
  IF n = 0 THEN <<>>
  ELSE ContentsUpTo(lines, n - 1)
       \o (IF lines[n].kind = "chunk" THEN <<lines[n].content>> ELSE <<>>)

(* The place of the first "[DONE]" line, or one past the last line.        *)
StreamEnd(sent) ==
  IF \E k \in 1..Len(sent.lines) : sent.lines[k].kind = "done"
  THEN CHOOSE k \in 1..Len(sent.lines) :
         /\ sent.lines[k].kind = "done"
         /\ \A j \in 1..k - 1 : sent.lines[j].kind # "done"
  ELSE Len(sent.lines) + 1

(* The lines that arrived with their newline.                              *)
CompleteLines(sent) ==
  IF sent.newline \/ sent.lines = <<>> THEN Len(sent.lines)
  ELSE Len(sent.lines) - 1

Min(x, y) == IF x <= y THEN x ELSE y

SentBeforeEnd(sent) == ContentsUpTo(sent.lines, StreamEnd(sent) - 1)

ReceivedBeforeEnd(sent) ==
  ContentsUpTo(sent.lines, Min(StreamEnd(sent) - 1, CompleteLines(sent)))

IsPrefix(x, y) == Len(x) <= Len(y) /\ SubSeq(y, 1, Len(x)) = x

Streaming == stream.pc # "none"

C28_ExactlyChunksBeforeEnd ==
  (Streaming /\ stream.pc = "done" /\ stream.err = NoDecodeError) =>
    stream.calls = SentBeforeEnd(stream.sent)

(* C24: at every return of SendWithMeta, success or failure and under    *)
(* every retry discipline, Retries equals the number of provider Send      *)
(* calls of the call minus the number of models of the chain on which at   *)
(* least one Send was made.                                                *)
ModelsAttempted(c) == {c.sends[k].i : k \in 1..Len(c.sends)}

C24_RetriesCount ==
  Returned =>
    call.meta.Retries = Len(call.sends) - Cardinality(ModelsAttempted(call))

(* A call that retried on two models of its chain.                         *)
C24_Witness ==
  /\ Returned
  /\ Cardinality(ModelsAttempted(call)) >= 2
  /\ \A j \in ModelsAttempted(call) : SendsOn(call, j) >= 2
  /\ call.meta.Retries >= 2

(* C25: under the legacy Retry(n) policy the sleep before the k-th retry   *)
(* of a model is exactly k*k*100 ms; no sleep precedes a model's first     *)
(* attempt and none follows its last attempt, failed or successful, so a   *)
(* model that fails all n+1 attempts contributes                           *)
(* 100 ms * (1^2 + ... + n^2) before the chain moves on.                   *)
QuadraticSleeps(n) == [k \in 1..n |-> k * k * 100]

RECURSIVE SumOfSquares(_)
SumOfSquares(n) == IF n <= 0 THEN 0 ELSE n * n + SumOfSquares(n - 1)

RECURSIVE Sum(_)
Sum(ms) == IF ms = <<>> THEN 0 ELSE Head(ms) + Sum(Tail(ms))

(* The sleeps of the models at the chain positions 1..j, each model having *)
(* slept before every attempt but its first.                               *)
RECURSIVE SleepsThrough(_, _)
SleepsThrough(c, j) ==
  IF j <= 0 THEN <<>>
  ELSE SleepsThrough(c, j - 1) \o QuadraticSleeps(SendsOn(c, j) - 1)

LegacyCall == Discipline(b) = "legacy" /\ call.pc # "start"

C25_LegacyQuadraticSleep ==
  LegacyCall =>
    /\ \/ call.sleeps = SleepsThrough(call, Len(call.models))
       \/ /\ call.pc \in {"gate", "send"}
          /\ SendsOn(call, call.i) >= 1
          /\ call.sleeps = SleepsThrough(call, call.i - 1)
                             \o QuadraticSleeps(SendsOn(call, call.i))
    /\ Returned => call.sleeps = SleepsThrough(call, Len(call.models))
    /\ ChainExhausted =>
         Sum(call.sleeps) =
           Len(call.models) * 100 * SumOfSquares(b.maxRetries)

(* Retry(3) with a fallback: both models failed all four attempts.         *)
C25_Witness ==
  /\ LegacyCall
  /\ ChainExhausted
  /\ b.maxRetries = 3
  /\ Len(call.models) = 2
  /\ Len(call.sleeps) = 6
  /\ Sum(call.sleeps) = 2800

(* C26: Azure delegates to the OpenAI table: for every model, with or     *)
(* without a table entry, resolveModel(ProviderAzure, M) =                 *)
(* resolveModel(ProviderOpenAI, M).                                        *)
C26_AzureAsOpenAI ==
  (Resolved /\ resolved.providerType = ProviderAzure) =>
    /\ resolved.id = resolveModel(ProviderOpenAI, resolved.model)
    /\ HasMapping(ProviderAzure, resolved.model)
         <=> HasMapping(ProviderOpenAI, resolved.model)

(* Azure is handed a model of the OpenAI table and returns its entry.      *)
C26_Witness ==
  /\ Resolved
  /\ resolved.providerType = ProviderAzure
  /\ resolved.model \in DOMAIN OpenAIModels
  /\ HasMapping(ProviderAzure, resolved.model)
  /\ resolved.id = OpenAIModels[resolved.model]
  /\ resolved.id # resolved.model

(* C27: model resolution is idempotent: for every backend B and every      *)
(* identifier s, resolveModel(B, resolveModel(B, s)) = resolveModel(B, s), *)
(* identifiers with a repeated vendor prefix included.                     *)
ResolvedAgain == resolveModel(resolved.providerType, resolved.id)

C27_Idempotent == Resolved => ResolvedAgain = resolved.id

(* C27, amended: resolution is idempotent for every backend B and every    *)
(* identifier that carries B's vendor prefix at most once and does not     *)
(* resolve to an Anthropic shorthand that has a snapshot of its own.       *)
StrippedPrefix(providerType) ==
  IF providerType = ProviderAnthropic THEN "anthropic/"
  ELSE OwnPrefix(providerType)

RepeatedPrefix ==
  LET pre == StrippedPrefix(resolved.providerType)
  IN pre # "" /\ HasPrefix(resolved.model, pre \o pre)

ResolvedToShorthand ==
  /\ resolved.providerType = ProviderAnthropic
  /\ resolved.id \in DOMAIN AnthropicSnapshots

C27_IdempotentSinglePrefix ==
  (Resolved /\ ~RepeatedPrefix /\ ~ResolvedToShorthand) =>
    ResolvedAgain = resolved.id

(* Anthropic is handed a prefixed dotted id with a suffix: the first       *)
(* resolution rewrites it, the second leaves the result alone.             *)
C27_Witness ==
  /\ Resolved
  /\ resolved.providerType = ProviderAnthropic
  /\ ~HasMapping(ProviderAnthropic, resolved.model)
  /\ HasPrefix(resolved.model, "anthropic/")
  /\ ~RepeatedPrefix
  /\ Contains(resolved.model, ":")
  /\ resolved.id # resolved.model
  /\ ResolvedAgain = resolved.id

(* C29: right after c := b.Clone() every configuration field of c equals  *)
(* that of b, and a later builder call on one of the two leaves every      *)
(* field of the other as it was.                                           *)
C29_CloneIndependentCopy ==
  pair.pc = "cloned" =>
    /\ pair.last = "clone" => View(pair, "c") = View(pair, "b")
    /\ pair.last \in Receivers =>
         View(pair, Other(pair.last)) = pair.before

(* The input items of a built request; a bare string input stands for one  *)
(* user item.                                                              *)
InputItems(input) ==
  IF input.kind = "string"
  THEN <<[Role |-> "user", Content |-> input.text]>>
  ELSE input.items

(* An input item represents a message: same role, and the message's text   *)
(* when its content is text.                                               *)
Represents(item, msg) ==
  /\ item.Role = msg.Role
  /\ IsString(msg.Content) => item.Content = msg.Content.text

IsSystem(msg) == msg.Role = "system"
NotSystem(msg) == msg.Role # "system"

(* C30: in the Responses request every message of the abstract request is  *)
(* represented exactly once: the system message only as "instructions",    *)
(* every other message as one input item, in the original order; no        *)
(* message is both instructions and an input item, and none is dropped.    *)
C30_EveryMessageOnce ==
  wire.pc = "sent" =>
    LET others == SelectSeq(wire.messages, NotSystem)
        systems == SelectSeq(wire.messages, IsSystem)
        items == InputItems(wire.input)
    IN /\ Len(items) = Len(others)
       /\ \A k \in 1..Len(others) : Represents(items[k], others[k])
       /\ \A k \in 1..Len(items) : items[k].Role # "system"
       /\ Len(systems) <= 1
       /\ Len(systems) = 1 => wire.instructions = systems[1].Content.text
       /\ Len(systems) = 0 => wire.instructions = ""

====
